---- MODULE Spec2Model ----
(***************************************************************************)
(* Model of the platform-agnostic player core of track-player:             *)
(*   QueueManager    (packages/core/src/utils.ts)                          *)
(*   BaseTrackPlayer (packages/core/src/BaseTrackPlayer.ts)                *)
(* driven through the PlayerAdapter contract.                              *)
(***************************************************************************)
EXTENDS Integers, Sequences, FiniteSets, Bags, TLC

(***************************************************************************)
(* Bounds                                                                  *)
(***************************************************************************)
\* longest queue the QueueManager specification builds
MaxQueue == 3
\* longest index list handed to remove()
MaxRemove == 2
\* most tracks handed to one add() call
MaxAdd == 2

\* track identities; a track is in the queue at most once
Tracks == 1..(MaxQueue + 1)

\* longest queue the player specifications build
PMaxQueue == 2
\* most tracks handed to one add() call of the player
PMaxAdd == 1
\* longest index list handed to remove() of the player
PMaxRemove == 1
\* most transport / queue operations suspended at an await at the same time
MaxTasks == 1
\* most lifecycle operations (init, reset, destroy) suspended at the same time
MaxLifecycle == 1
\* event handlers a caller may register
MaxHandlers == 3
\* registrations an EventEmitter holds at a time
MaxListeners == 3
MaxInits == 2

VARIABLES
  queue,            \* QueueManager.queue: sequence of tracks
  currentIndex,     \* QueueManager.currentIndex
  result,           \* the promise settled by the latest step: resolved or the error
  isSetup,          \* BaseTrackPlayer.isSetup
  adapter,          \* BaseTrackPlayer.adapter: 0 is null, 1 the adapter createAdapter() made
  capabilities,     \* BaseTrackPlayer.options.capabilities
  state,            \* BaseTrackPlayer.state
  playWhenReady,    \* BaseTrackPlayer.playWhenReady
  repeatMode,       \* BaseTrackPlayer.repeatMode
  isChangingTrack,  \* BaseTrackPlayer.isChangingTrack
  persistentRate,   \* BaseTrackPlayer.persistentRate, in hundredths
  listeners,        \* EventEmitter.listeners: the registrations, oldest first
  tasks,            \* bag of the async operations suspended at an await
  adSrc,            \* adapter: the track of the last load() call, NoTrack after stop()
  adPlaying,        \* adapter: what isPlaying() answers
  calls,            \* adapter methods invoked by the latest step, in order
  emitted,          \* events emitted by the latest step, in order
  log,              \* the adapter methods and event types of the latest step, in the
                    \* order the step invoked and emitted them
  equalizer,        \* BaseTrackPlayer.equalizerManager: the EqualizerManager's state
  adGains           \* adapter: the gain of each of its equalizer filters, as last set

qvars == <<queue, currentIndex>>
pvars == <<isSetup, adapter, capabilities, state, playWhenReady, repeatMode,
           isChangingTrack, persistentRate, listeners, tasks, adSrc, adPlaying,
           calls, emitted, log, equalizer, adGains>>
vars == <<queue, currentIndex, result, isSetup, adapter, capabilities, state,
          playWhenReady, repeatMode, isChangingTrack, persistentRate, listeners, tasks,
          adSrc, adPlaying, calls, emitted, log, equalizer, adGains>>

(***************************************************************************)
(* Helpers                                                                 *)
(***************************************************************************)
Range(s) == {s[i] : i \in 1..Len(s)}

Min(a, b) == IF a <= b THEN a ELSE b
Max(a, b) == IF a >= b THEN a ELSE b

\* Array.prototype.splice(index, 1) with a 0-based index
SpliceOut(q, index) ==
  [i \in 1..(Len(q) - 1) |-> IF i <= index THEN q[i] ELSE q[i + 1]]

\* Array.prototype.splice(index, 0, ...items) with a 0-based index
SpliceIn(q, index, items) ==
  SubSeq(q, 1, index) \o items \o SubSeq(q, index + 1, Len(q))

\* insertion of x into a sequence sorted in descending order
RECURSIVE InsertDesc(_, _)
InsertDesc(x, s) ==
  IF s = <<>> THEN <<x>>
  ELSE IF x >= Head(s) THEN <<x>> \o s
  ELSE <<Head(s)>> \o InsertDesc(x, Tail(s))

\* [...indicesArray].sort((a, b) => b - a)
RECURSIVE SortDesc(_)
SortDesc(s) == IF s = <<>> THEN <<>> ELSE InsertDesc(Head(s), SortDesc(Tail(s)))

\* sequences over S of length 0..n
SeqsUpTo(S, n) == UNION {[1..k -> S] : k \in 0..n}

\* sequences of pairwise distinct elements
Distinct(s) == \A i, j \in 1..Len(s) : i # j => s[i] # s[j]

(***************************************************************************)
(* QueueManager                                                            *)
(***************************************************************************)
NoIndex == 99   \* insertBeforeIndex === undefined

\* variant of QueueManager.add without the rule that makes the first track of
\* an empty queue the current one
QueueManager_addNoFirst(q, c, tracksArray, insertBeforeIndex) ==
  IF Len(tracksArray) = 0 THEN [queue |-> q, currentIndex |-> c]
  ELSE
    LET inRange  == /\ insertBeforeIndex # NoIndex
                    /\ insertBeforeIndex >= 0
                    /\ insertBeforeIndex <= Len(q)
        q1 == IF inRange THEN SpliceIn(q, insertBeforeIndex, tracksArray)
              ELSE q \o tracksArray
        c1 == IF inRange /\ c >= insertBeforeIndex THEN c + Len(tracksArray) ELSE c
    IN [queue |-> q1, currentIndex |-> c1]

\* QueueManager.add(tracks, insertBeforeIndex)
QueueManager_add(q, c, tracksArray, insertBeforeIndex) ==
  IF Len(tracksArray) = 0 THEN [queue |-> q, currentIndex |-> c]
  ELSE
    LET wasEmpty == Len(q) = 0
        inRange  == /\ insertBeforeIndex # NoIndex
                    /\ insertBeforeIndex >= 0
                    /\ insertBeforeIndex <= Len(q)
        q1 == IF inRange THEN SpliceIn(q, insertBeforeIndex, tracksArray)
              ELSE q \o tracksArray
        c1 == IF inRange /\ c >= insertBeforeIndex THEN c + Len(tracksArray) ELSE c
        c2 == IF wasEmpty /\ c1 = -1 /\ Len(tracksArray) > 0 THEN 0 ELSE c1
    IN [queue |-> q1, currentIndex |-> c2]

\* one iteration of the for loop of QueueManager.remove; st is the loop state
\* (queue, newIndex, removedCurrentTrack), c is this.currentIndex
RemoveStep(st, c, index) ==
  IF index >= 0 /\ index < Len(st.queue) THEN
    LET q1 == SpliceOut(st.queue, index) IN
    IF index < st.newIndex THEN
      [queue |-> q1, newIndex |-> st.newIndex - 1,
       removedCurrentTrack |-> st.removedCurrentTrack]
    ELSE IF index = c THEN
      [queue |-> q1,
       newIndex |-> IF Len(q1) > 0 THEN Min(c, Len(q1) - 1) ELSE -1,
       removedCurrentTrack |-> TRUE]
    ELSE [queue |-> q1, newIndex |-> st.newIndex,
          removedCurrentTrack |-> st.removedCurrentTrack]
  ELSE st

RECURSIVE RemoveLoop(_, _, _)
RemoveLoop(st, c, sortedIndices) ==
  IF sortedIndices = <<>> THEN st
  ELSE RemoveLoop(RemoveStep(st, c, Head(sortedIndices)), c, Tail(sortedIndices))

\* QueueManager.remove(indices)
QueueManager_remove(q, c, indicesArray) ==
  IF Len(indicesArray) = 0
  THEN [queue |-> q, newIndex |-> c, removedCurrentTrack |-> FALSE]
  ELSE RemoveLoop([queue |-> q, newIndex |-> c, removedCurrentTrack |-> FALSE],
                  c, SortDesc(indicesArray))

\* variant of move that takes an index past either end for the nearest valid one
QueueManager_moveClamped(q, c, fromIndex, toIndex) ==
  IF Len(q) = 0 THEN [queue |-> q, currentIndex |-> c, err |-> TRUE]
  ELSE
    LET from == Max(0, Min(Len(q) - 1, fromIndex))
        to == Max(0, Min(Len(q) - 1, toIndex))
    IN IF from = to THEN [queue |-> q, currentIndex |-> c, err |-> FALSE]
       ELSE
         LET q1 == SpliceIn(SpliceOut(q, from), to, <<q[from + 1]>>)
             c1 == IF c = from THEN to
                   ELSE IF from < c /\ to >= c THEN c - 1
                   ELSE IF from > c /\ to <= c THEN c + 1
                   ELSE c
         IN [queue |-> q1, currentIndex |-> c1, err |-> FALSE]

\* variant of move whose cursor follows the moved track only
QueueManager_moveCursorStays(q, c, fromIndex, toIndex) ==
  IF fromIndex < 0 \/ fromIndex >= Len(q) THEN [queue |-> q, currentIndex |-> c, err |-> TRUE]
  ELSE IF toIndex < 0 \/ toIndex >= Len(q) THEN [queue |-> q, currentIndex |-> c, err |-> TRUE]
  ELSE IF fromIndex = toIndex THEN [queue |-> q, currentIndex |-> c, err |-> FALSE]
  ELSE
    LET q1 == SpliceIn(SpliceOut(q, fromIndex), toIndex, <<q[fromIndex + 1]>>)
        c1 == IF c = fromIndex THEN toIndex ELSE c
    IN [queue |-> q1, currentIndex |-> c1, err |-> FALSE]

\* QueueManager.move(fromIndex, toIndex); err is TRUE when it throws
QueueManager_move(q, c, fromIndex, toIndex) ==
  IF fromIndex < 0 \/ fromIndex >= Len(q) THEN [queue |-> q, currentIndex |-> c, err |-> TRUE]
  ELSE IF toIndex < 0 \/ toIndex >= Len(q) THEN [queue |-> q, currentIndex |-> c, err |-> TRUE]
  ELSE IF fromIndex = toIndex THEN [queue |-> q, currentIndex |-> c, err |-> FALSE]
  ELSE
    LET track == q[fromIndex + 1]
        q1 == SpliceIn(SpliceOut(q, fromIndex), toIndex, <<track>>)
        c1 == IF c = fromIndex THEN toIndex
              ELSE IF fromIndex < c /\ toIndex >= c THEN c - 1
              ELSE IF fromIndex > c /\ toIndex <= c THEN c + 1
              ELSE c
    IN [queue |-> q1, currentIndex |-> c1, err |-> FALSE]

\* QueueManager.skip(index); err is TRUE when it throws
QueueManager_skip(q, c, index) ==
  IF index < 0 \/ index >= Len(q) THEN [prevIndex |-> c, currentIndex |-> c, err |-> TRUE]
  ELSE [prevIndex |-> c, currentIndex |-> index, err |-> FALSE]

\* QueueManager.getCurrentTrack(); 0 stands for undefined
NoTrack == 0
getCurrentTrack(q, c) == IF c >= 0 /\ c < Len(q) THEN q[c + 1] ELSE NoTrack

\* QueueManager.isAtEnd / isAtStart
isAtEnd(q, c) == c = Len(q) - 1
isAtStart(c) == c = 0

(***************************************************************************)
(* Constants of the player core                                            *)
(***************************************************************************)
\* constants.ts: Capability, DEFAULT_CAPABILITIES
DEFAULT_CAPABILITIES ==
  {"play", "pause", "stop", "skip", "skip-to-next", "skip-to-previous",
   "seek-to", "seek-by", "set-volume", "set-rate"}
\* the capability list of the documented setupPlayer example
ExampleCapabilities == {"play", "pause", "skip-to-next", "skip-to-previous", "seek-to"}
\* capability lists a caller configures
CapabilitySets == {DEFAULT_CAPABILITIES, ExampleCapabilities, {}}

States == {"none", "ready", "playing", "paused", "stopped", "buffering", "error"}
RepeatModes == {"off", "track", "queue"}

\* rates and volumes are counted in hundredths
MIN_RATE == 25
MAX_RATE == 400
clampRate(rate) == Max(MIN_RATE, Min(MAX_RATE, rate))
clampVolume(volume) == Max(0, Min(100, volume))
\* rates and volumes a caller passes
RateInputs == {500}
VolumeInputs == {150}

\* tracks of the player specification; track 2 is a live stream
PTracks == 1..PMaxQueue
isLiveStream(track) == track = 2

\* null in an event payload
Null == -1

Handlers == 1..MaxHandlers
ListenerEvents == {"playback-state", "playback-track-changed"}

(***************************************************************************)
(* EventEmitter.  listeners[event] is a Set, which keeps its members in    *)
(* the order they were added: the registrations of all events are kept in  *)
(* one sequence ls, oldest first.  A registration made by once() is a      *)
(* wrapper of its own, marked once.                                        *)
(***************************************************************************)
Listener(event, handler, once) == [event |-> event, handler |-> handler, once |-> once]
\* what the handlers of a caller do when invoked: handler 2 throws, the others return
Throws(handler) == handler = 2

\* EventEmitter.on
EventEmitter_on(ls, event, handler) ==
  IF \E i \in 1..Len(ls) : ls[i] = Listener(event, handler, FALSE) THEN ls
  ELSE Append(ls, Listener(event, handler, FALSE))

\* EventEmitter.off
EventEmitter_off(ls, event, handler) ==
  [listeners |-> SelectSeq(ls, LAMBDA l : l # Listener(event, handler, FALSE)),
   removed |-> \E i \in 1..Len(ls) : ls[i] = Listener(event, handler, FALSE)]

\* EventEmitter.once
EventEmitter_once(ls, event, handler) == Append(ls, Listener(event, handler, TRUE))

\* EventEmitter.removeAllListeners; event "" is the omitted argument
EventEmitter_removeAllListeners(ls, event) ==
  IF event # "" THEN SelectSeq(ls, LAMBDA l : l.event # event) ELSE <<>>

\* the invocation of the registration at place i of ls, of which r.gone earlier
\* ones are gone: a wrapper of once() removes itself, then calls its handler
Invoke(r, ls, i, data) ==
  [r EXCEPT !.listeners = IF ls[i].once THEN SpliceOut(@, i - 1 - r.gone) ELSE @,
            !.gone = IF ls[i].once THEN @ + 1 ELSE @,
            !.invoked = Append(@, [handler |-> ls[i].handler, data |-> data])]

\* variant of the loop of emit without try / catch: a handler that throws ends it
RECURSIVE EmitLoopUncaught(_, _, _, _)
EmitLoopUncaught(r, ls, i, data) ==
  IF i > Len(ls) THEN r
  ELSE IF ls[i].event # data.type THEN EmitLoopUncaught(r, ls, i + 1, data)
  ELSE IF Throws(ls[i].handler) THEN [Invoke(r, ls, i, data) EXCEPT !.err = TRUE]
  ELSE EmitLoopUncaught(Invoke(r, ls, i, data), ls, i + 1, data)

\* the loop of emit over the handlers of data.type, from place i of ls on;
\* what a handler throws is caught and logged
RECURSIVE EmitLoop(_, _, _, _)
EmitLoop(r, ls, i, data) ==
  IF i > Len(ls) THEN r
  ELSE IF ls[i].event # data.type THEN EmitLoop(r, ls, i + 1, data)
  ELSE EmitLoop(Invoke(r, ls, i, data), ls, i + 1, data)

\* EventEmitter.emit: the registrations after it, the handlers invoked in order
\* and whether emit threw
EventEmitter_emit(ls, data) ==
  LET r == EmitLoop([listeners |-> ls, gone |-> 0, invoked |-> <<>>, err |-> FALSE],
                    ls, 1, data)
  IN [listeners |-> r.listeners, invoked |-> r.invoked, err |-> r.err]

(***************************************************************************)
(* EqualizerManager.  An operation is a function of the manager's state e  *)
(* to the state after it, the callbacks it invoked in order (as if all     *)
(* three were set) and whether it threw.                                   *)
(***************************************************************************)
EQUALIZER_FREQUENCIES == <<32, 64, 125, 250, 500, 1000, 2000, 4000, 8000, 16000>>
EQUALIZER_PRESETS ==
  [flat       |-> <<0, 0, 0, 0, 0, 0, 0, 0, 0, 0>>,
   rock       |-> <<4, 3, 1, -1, 0, 1, 3, 4, 4, 3>>,
   pop        |-> <<1, 2, 3, 2, 0, -1, -1, 1, 2, 3>>,
   jazz       |-> <<2, 1, 0, 1, 2, 2, 1, 0, 1, 2>>,
   classical  |-> <<3, 2, 1, 0, -1, -1, 0, 1, 2, 3>>,
   electronic |-> <<5, 4, 2, 0, -1, 1, 2, 3, 4, 5>>,
   vocal      |-> <<0, -1, 0, 2, 4, 3, 2, 1, 0, -1>>,
   bass       |-> <<6, 5, 4, 2, 1, 0, -1, -2, -2, -2>>,
   treble     |-> <<-2, -2, -1, 0, 1, 2, 4, 5, 6, 6>>]
GAIN_MIN == -12
GAIN_MAX == 12
DEFAULT_Q == 1

\* invocations of the callbacks
BandChange(index, gain) == [cb |-> "onBandChange", index |-> index, gain |-> gain]
EnabledChange(enabled) == [cb |-> "onEnabledChange", enabled |-> enabled]
PreAmpGainChange(gain) == [cb |-> "onPreAmpGainChange", gain |-> gain]

\* what an operation hands back: state, callbacks invoked, thrown or not
EqReturn(e, fired) == [eq |-> e, fired |-> fired, err |-> FALSE]
EqThrow(e) == [eq |-> e, fired |-> <<>>, err |-> TRUE]

\* EqualizerManager.createDefaultBands
createDefaultBands ==
  [i \in 1..Len(EQUALIZER_FREQUENCIES) |->
     [frequency |-> EQUALIZER_FREQUENCIES[i], gain |-> 0, Q |-> DEFAULT_Q]]

\* EqualizerManager constructor
EqualizerManager_new ==
  [enabled |-> FALSE, preAmpGain |-> 0, bands |-> createDefaultBands]

\* variant of clampGain that limits boosts only
clampGainAbove(gain) == Min(GAIN_MAX, gain)

\* EqualizerManager.clampGain
clampGain(gain) == Max(GAIN_MIN, Min(GAIN_MAX, gain))

\* bands.reduce((max, band) => (band.gain > max ? band.gain : max), max)
RECURSIVE ReduceMaxGain(_, _, _)
ReduceMaxGain(bands, i, max) ==
  IF i > Len(bands) THEN max
  ELSE ReduceMaxGain(bands, i + 1, IF bands[i].gain > max THEN bands[i].gain ELSE max)

\* variant of calculatePreAmpGain that compensates negative gains too
calculatePreAmpGainNoFloor(e, fired) ==
  LET maxGain == ReduceMaxGain(e.bands, 2, e.bands[1].gain)
      newPreAmpGain == 0 - maxGain
  IN IF newPreAmpGain # e.preAmpGain
       THEN EqReturn([e EXCEPT !.preAmpGain = newPreAmpGain],
                     Append(fired, PreAmpGainChange(newPreAmpGain)))
       ELSE EqReturn(e, fired)

\* EqualizerManager.calculatePreAmpGain, at the end of an operation
calculatePreAmpGain(e, fired) ==
  LET maxGain == ReduceMaxGain(e.bands, 1, 0)
      newPreAmpGain == IF maxGain > 0 THEN -maxGain ELSE 0
  IN IF newPreAmpGain # e.preAmpGain
       THEN EqReturn([e EXCEPT !.preAmpGain = newPreAmpGain],
                     Append(fired, PreAmpGainChange(newPreAmpGain)))
       ELSE EqReturn(e, fired)

\* the forEach loops: onBandChange is invoked with the gain of every band, by index
EachBandChange(bands) ==
  [i \in 1..Len(bands) |-> BandChange(i - 1, bands[i].gain)]

\* variant of setEnabled that reports the change and re-sends nothing
EqualizerManager_setEnabledOnly(e, enabled) ==
  IF e.enabled = enabled THEN EqReturn(e, <<>>)
  ELSE EqReturn([e EXCEPT !.enabled = enabled], <<EnabledChange(enabled)>>)

\* EqualizerManager.setEnabled
EqualizerManager_setEnabled(e, enabled) ==
  IF e.enabled = enabled THEN EqReturn(e, <<>>)
  ELSE
    LET e1 == [e EXCEPT !.enabled = enabled] IN
    IF enabled
      THEN EqReturn(e1, <<EnabledChange(enabled)>> \o EachBandChange(e1.bands)
                          \o <<PreAmpGainChange(e1.preAmpGain)>>)
      ELSE EqReturn(e1, <<EnabledChange(enabled)>>)

\* EqualizerManager.setBandGain; index counts from 0
EqualizerManager_setBandGain(e, index, gain) ==
  IF index < 0 \/ index >= Len(e.bands) THEN EqThrow(e)
  ELSE
    LET clampedGain == clampGain(gain) IN
    calculatePreAmpGain([e EXCEPT !.bands[index + 1].gain = clampedGain],
                        <<BandChange(index, clampedGain)>>)

\* EqualizerManager.setBands
EqualizerManager_setBands(e, bands) ==
  IF Len(bands) # Len(e.bands) THEN EqThrow(e)
  ELSE
    LET set(i) == [frequency |-> bands[i].frequency, gain |-> clampGain(bands[i].gain),
                   Q |-> bands[i].Q]
        e1 == [e EXCEPT !.bands = [i \in 1..Len(e.bands) |-> set(i)]]
    IN calculatePreAmpGain(e1, EachBandChange(e1.bands))

\* EqualizerManager.setPreset
EqualizerManager_setPreset(e, preset) ==
  IF preset \notin DOMAIN EQUALIZER_PRESETS THEN EqThrow(e)
  ELSE
    LET gains == EQUALIZER_PRESETS[preset]
        set(i) == [e.bands[i] EXCEPT !.gain = clampGain(gains[i])]
        e1 == [e EXCEPT !.bands = [i \in 1..Len(e.bands) |-> set(i)]]
    IN calculatePreAmpGain(e1, EachBandChange(e1.bands))

\* EqualizerManager.reset
EqualizerManager_reset(e) ==
  LET set(i) == [e.bands[i] EXCEPT !.gain = 0]
      e1 == [e EXCEPT !.bands = [i \in 1..Len(e.bands) |-> set(i)]]
  IN calculatePreAmpGain(e1, EachBandChange(e1.bands))

(***************************************************************************)
(* The player as a record, so that the methods are functions of it         *)
(***************************************************************************)
\* no promise settles in a step
NoResult == [err |-> "", cap |-> ""]

Cur ==
  [queue |-> queue, currentIndex |-> currentIndex, isSetup |-> isSetup,
   adapter |-> adapter, capabilities |-> capabilities,
   state |-> state, playWhenReady |-> playWhenReady, repeatMode |-> repeatMode,
   isChangingTrack |-> isChangingTrack, persistentRate |-> persistentRate,
   listeners |-> listeners, tasks |-> tasks, adSrc |-> adSrc, adPlaying |-> adPlaying,
   equalizer |-> equalizer, adGains |-> adGains, calls |-> <<>>, emitted |-> <<>>, log |-> <<>>,
   result |-> NoResult]

Commit(p) ==
  /\ queue' = p.queue
  /\ currentIndex' = p.currentIndex
  /\ isSetup' = p.isSetup
  /\ adapter' = p.adapter
  /\ capabilities' = p.capabilities
  /\ state' = p.state
  /\ playWhenReady' = p.playWhenReady
  /\ repeatMode' = p.repeatMode
  /\ isChangingTrack' = p.isChangingTrack
  /\ persistentRate' = p.persistentRate
  /\ listeners' = p.listeners
  /\ tasks' = p.tasks
  /\ adSrc' = p.adSrc
  /\ adPlaying' = p.adPlaying
  /\ calls' = p.calls
  /\ emitted' = p.emitted
  /\ log' = p.log
  /\ equalizer' = p.equalizer
  /\ adGains' = p.adGains
  /\ result' = p.result

\* WebPlayerAdapter.createAudioNodes: one filter per frequency, gain 0
NewFilters == [i \in 1..Len(EQUALIZER_FREQUENCIES) |-> 0]
\* no adapter, no filters
NoFilters == <<>>

\* field initialisers of BaseTrackPlayer
Constructed ==
  /\ isSetup = FALSE
  /\ adapter = 0
  /\ capabilities = DEFAULT_CAPABILITIES
  /\ state = "none"
  /\ playWhenReady = FALSE
  /\ repeatMode = "off"
  /\ isChangingTrack = FALSE
  /\ persistentRate = 100
  /\ listeners = <<>>
  /\ tasks = EmptyBag
  /\ adSrc = NoTrack
  /\ adPlaying = FALSE
  /\ calls = <<>>
  /\ emitted = <<>>
  /\ log = <<>>
  /\ equalizer = EqualizerManager_new
  /\ adGains = NoFilters

\* the promise the caller holds resolves / rejects
Resolve(p) == [p EXCEPT !.result = [err |-> "none", cap |-> ""]]
Reject(p, err) == [p EXCEPT !.result = [err |-> err, cap |-> ""]]
\* errors.ts: CapabilityNotEnabledError(capability)
CapabilityNotEnabledError(p, cap) ==
  [p EXCEPT !.result = [err |-> "CapabilityNotEnabledError", cap |-> cap]]

\* EventEmitter.emit
emit(p, e) == [p EXCEPT !.emitted = Append(@, e), !.log = Append(@, e.type)]

PlaybackState(s) == [type |-> "playback-state", state |-> s]
PlaybackError == [type |-> "playback-error"]
PlaybackTrackChanged(prev, next) ==
  [type |-> "playback-track-changed", prevTrack |-> prev, nextTrack |-> next]
PlaybackProgressUpdated == [type |-> "playback-progress-updated"]
PlaybackQueueEnded(t) == [type |-> "playback-queue-ended", track |-> t]

\* a call of an adapter method, with what the adapter does at once
adapterCall(p, m, a) ==
  LET p1 == [p EXCEPT !.calls = Append(@, [m |-> m, a |-> a]), !.log = Append(@, m)] IN
  CASE m = "stop"  -> [p1 EXCEPT !.adSrc = NoTrack, !.adPlaying = FALSE]
    [] m = "load"  -> [p1 EXCEPT !.adSrc = a, !.adPlaying = FALSE]
    [] m = "play"  -> [p1 EXCEPT !.adPlaying = TRUE]
    [] m = "pause" -> [p1 EXCEPT !.adPlaying = FALSE]
    [] m = "setEqualizerBandGain" ->
         IF a[1] + 1 \in DOMAIN p1.adGains THEN [p1 EXCEPT !.adGains[a[1] + 1] = a[2]]
         ELSE p1
    [] m = "setEqualizerEnabled" ->
         IF a THEN p1 ELSE [p1 EXCEPT !.adGains = [i \in DOMAIN @ |-> 0]]
    [] OTHER -> p1

\* suspension at an await
Suspend(p, t) == [p EXCEPT !.tasks = @ (+) SetToBag({t})]

\* the awaits of init / reset / destroy
LifecyclePcs == {"init", "reset", "destroy"}
\* the awaits of loadTrack
LoadPcs == {"load_stop", "load_load"}
\* the tasks of bag B whose pc is in S
TasksAt(B, S) == [t \in {x \in BagToSet(B) : x.pc \in S} |-> B[t]]
\* the suspended operations stay within the bounds
Fits(p) ==
  /\ BagCardinality(TasksAt(p.tasks, LifecyclePcs)) <= MaxLifecycle
  /\ BagCardinality(p.tasks) - BagCardinality(TasksAt(p.tasks, LifecyclePcs)) <= MaxTasks
\* a step of the player: the operation ran up to its next await
Do(p) == Fits(p) /\ Commit(p)

\* the locals of a suspended operation; pc is the await it waits at
Task0 ==
  [pc |-> "", cont |-> "", track |-> NoTrack, preserve |-> FALSE,
   wasPlayingL |-> FALSE, wasPlaying |-> FALSE, prevIndex |-> -1, index |-> -1,
   seek |-> FALSE, auto |-> "no"]
At(pc) == [Task0 EXCEPT !.pc = pc]

\* BaseTrackPlayer.ensureInitialized fails
notInitialized(p) == ~p.isSetup \/ p.adapter = 0

\* updateState without its comparison with the current state
updateStateAlways(p, s) == emit([p EXCEPT !.state = s], PlaybackState(s))

\* BaseTrackPlayer.updateState
updateState(p, s) ==
  IF p.state # s THEN emit([p EXCEPT !.state = s], PlaybackState(s)) ELSE p

\* BaseTrackPlayer.emitProgress
emitProgress(p) == IF p.adapter = 0 THEN p ELSE emit(p, PlaybackProgressUpdated)

(***************************************************************************)
(* loadTrack and the operations that continue after it                     *)
(***************************************************************************)
\* loadTrack without its isChangingTrack guard
loadTrackUnguarded(p, t, track, preservePlayState) ==
  IF notInitialized(p) THEN Reject(p, "PlayerNotInitializedError")
  ELSE
    LET wasPlaying == preservePlayState /\ (p.playWhenReady \/ p.state = "playing")
        p1 == adapterCall([p EXCEPT !.isChangingTrack = TRUE], "stop", 0)
    IN Suspend(p1, [t EXCEPT !.pc = "load_stop", !.track = track,
                             !.preserve = preservePlayState, !.wasPlayingL = wasPlaying])

\* BaseTrackPlayer.loadTrack up to its first await; t carries the caller's locals
loadTrack(p, t, track, preservePlayState) ==
  IF notInitialized(p) THEN Reject(p, "PlayerNotInitializedError")
  ELSE IF p.isChangingTrack THEN Reject(p, "LoadInProgress")
  ELSE
    LET wasPlaying == preservePlayState /\ (p.playWhenReady \/ p.state = "playing")
        p1 == adapterCall([p EXCEPT !.isChangingTrack = TRUE], "stop", 0)
    IN Suspend(p1, [t EXCEPT !.pc = "load_stop", !.track = track,
                             !.preserve = preservePlayState, !.wasPlayingL = wasPlaying])

\* the catch block of loadTrack with the state updated before the error event
loadTrackCatchStateFirst(p) ==
  LET p1 == [p EXCEPT !.isChangingTrack = FALSE]
      p2 == updateState(p1, "error")
      p3 == emit(p2, PlaybackError)
  IN Reject(p3, "AdapterError")

\* the catch block of loadTrack
loadTrackCatch(p) ==
  LET p1 == [p EXCEPT !.isChangingTrack = FALSE]
      p2 == emit(p1, PlaybackError)
      p3 == updateState(p2, "error")
  IN Reject(p3, "AdapterError")

\* BaseTrackPlayer.play from "this.playWhenReady = true" to the await
playTail(p, auto) ==
  LET p1 == [p EXCEPT !.playWhenReady = TRUE] IN
  IF p1.adapter = 0 THEN Reject(emit(p1, PlaybackError), "AdapterError")
  ELSE Suspend(adapterCall(p1, "play", 0), [At("play") EXCEPT !.auto = auto])

\* BaseTrackPlayer.play up to its first await
playBody(p, auto) ==
  IF notInitialized(p) THEN Reject(p, "PlayerNotInitializedError")
  ELSE IF "play" \notin p.capabilities THEN CapabilityNotEnabledError(p, "play")
  ELSE IF p.currentIndex = -1 /\ Len(p.queue) > 0 THEN
    LET p1 == [p EXCEPT !.currentIndex = 0]
        firstTrack == getCurrentTrack(p1.queue, 0)
    IN loadTrack(p1, [Task0 EXCEPT !.cont = "play", !.auto = auto], firstTrack, FALSE)
  ELSE IF p.currentIndex = -1 THEN Reject(p, "NoTrackLoadedError")
  ELSE playTail(p, auto)

\* an operation has run to its end; handleTrackEnded chains play() after skip()
finish(p, auto) ==
  IF auto = "skip" THEN playBody(p, "play") ELSE Resolve(p)

\* variant of skipAfterSeek that resumes playback before it announces the track
skipAfterSeekPlayFirst(p, t) ==
  LET e == PlaybackTrackChanged(IF t.prevIndex >= 0 THEN t.prevIndex ELSE Null, t.index)
  IN IF t.wasPlaying THEN emit(playBody(p, t.auto), e) ELSE finish(emit(p, e), t.auto)

\* BaseTrackPlayer.skip after the optional seek
skipAfterSeek(p, t) ==
  LET p1 == emit(p, PlaybackTrackChanged(IF t.prevIndex >= 0 THEN t.prevIndex ELSE Null,
                                         t.index))
  IN IF t.wasPlaying THEN playBody(p1, t.auto) ELSE finish(p1, t.auto)

\* what the caller of loadTrack does when loadTrack has returned
afterLoad(p, t) ==
  CASE t.cont = "skip" ->
         IF t.seek THEN
           IF p.adapter = 0 THEN Reject(p, "TypeError")
           ELSE Suspend(adapterCall(p, "seekTo", 1),
                        [At("seek") EXCEPT !.wasPlaying = t.wasPlaying,
                                           !.prevIndex = t.prevIndex,
                                           !.index = t.index, !.auto = t.auto])
         ELSE skipAfterSeek(p, t)
    [] t.cont = "retry" -> IF t.wasPlaying THEN playBody(p, "no") ELSE Resolve(p)
    [] t.cont = "remove" -> Resolve(p)
    [] t.cont = "play" -> playTail(emit(p, PlaybackTrackChanged(Null, 0)), t.auto)

\* loadTrack after "await this.adapter.stop()"
loadAfterStop(p, t, ok) ==
  IF ~ok \/ p.adapter = 0 THEN loadTrackCatch(p)
  ELSE Suspend(adapterCall(p, "load", t.track), [t EXCEPT !.pc = "load_load"])

\* variant of loadAfterLoad that applies the normal rate to every track
loadAfterLoadNormalRate(p, t, ok) ==
  IF ~ok THEN loadTrackCatch(p)
  ELSE
    LET p1 == IF t.preserve THEN [p EXCEPT !.playWhenReady = t.wasPlayingL] ELSE p IN
    IF p1.adapter = 0 THEN loadTrackCatch(p1)
    ELSE afterLoad(updateState(adapterCall(p1, "setRate", 100), "buffering"), t)

\* loadTrack after "await this.adapter.load(track)"
loadAfterLoad(p, t, ok) ==
  IF ~ok THEN loadTrackCatch(p)
  ELSE
    LET p1 == IF t.preserve THEN [p EXCEPT !.playWhenReady = t.wasPlayingL] ELSE p IN
    IF p1.adapter = 0 THEN loadTrackCatch(p1)
    ELSE
      LET p2 == adapterCall(p1, "setRate",
                            IF isLiveStream(t.track) THEN 100 ELSE p1.persistentRate)
      IN afterLoad(updateState(p2, "buffering"), t)

(***************************************************************************)
(* Specification QSpec: a QueueManager driven by add / remove / move       *)
(***************************************************************************)
\* argument sets
FreshTrackLists(q) ==
  {ts \in SeqsUpTo(Tracks \ Range(q), MaxAdd) : Distinct(ts) /\ Len(q) + Len(ts) <= MaxQueue}
InsertPositions(q) == (-1..(Len(q) + 1)) \cup {NoIndex}
IndexLists(q) == SeqsUpTo(-1..Len(q), MaxRemove)

QInit ==
  /\ queue = <<>>
  /\ currentIndex = -1
  /\ result = NoResult
  /\ Constructed

QAdd(ts, ins) ==
  LET r == QueueManager_add(queue, currentIndex, ts, ins) IN
  /\ queue' = r.queue
  /\ currentIndex' = r.currentIndex
  /\ result' = [op |-> "add", ins |-> ins, count |-> Len(ts)]
  /\ UNCHANGED pvars

QRemove(ix) ==
  LET r == QueueManager_remove(queue, currentIndex, ix) IN
  /\ queue' = r.queue
  /\ currentIndex' = r.newIndex
  /\ result' = [op |-> "remove", removedCurrentTrack |-> r.removedCurrentTrack,
                    newIndex |-> r.newIndex]
  /\ UNCHANGED pvars

QMove(from, to) ==
  LET r == QueueManager_move(queue, currentIndex, from, to) IN
  /\ queue' = r.queue
  /\ currentIndex' = r.currentIndex
  /\ result' = [op |-> "move", err |-> r.err, from |-> from, to |-> to]
  /\ UNCHANGED pvars

QNext ==
  \/ \E ts \in FreshTrackLists(queue), ins \in InsertPositions(queue) : QAdd(ts, ins)
  \/ \E ix \in IndexLists(queue) : QRemove(ix)
  \/ \E from, to \in -1..Len(queue) : QMove(from, to)

QSpec == QInit /\ [][QNext]_vars

(***************************************************************************)
(* Public operations, each up to its first await                           *)
(***************************************************************************)
\* BaseTrackPlayer.init
init(p, caps) ==
  IF p.isSetup THEN Resolve(p)
  ELSE
    LET p1 == [p EXCEPT !.capabilities = caps, !.adapter = 1, !.adSrc = NoTrack,
                        !.adPlaying = FALSE, !.adGains = NewFilters]
    IN Suspend(adapterCall(p1, "initialize", 0), At("init"))

\* BaseTrackPlayer.updateOptions
updateOptions(p, caps) ==
  IF notInitialized(p) THEN Reject(p, "PlayerNotInitializedError")
  ELSE Resolve([p EXCEPT !.capabilities = caps])

\* BaseTrackPlayer.add
add(p, ts, ins) ==
  IF notInitialized(p) THEN Reject(p, "PlayerNotInitializedError")
  ELSE
    LET r == QueueManager_add(p.queue, p.currentIndex, ts, ins)
    IN Resolve([p EXCEPT !.queue = r.queue, !.currentIndex = r.currentIndex])

\* BaseTrackPlayer.move
move(p, from, to) ==
  IF notInitialized(p) THEN Reject(p, "PlayerNotInitializedError")
  ELSE
    LET r == QueueManager_move(p.queue, p.currentIndex, from, to) IN
    IF r.err THEN Reject(p, "OutOfBounds")
    ELSE Resolve([p EXCEPT !.queue = r.queue, !.currentIndex = r.currentIndex])

\* BaseTrackPlayer.remove
remove(p, ix) ==
  IF notInitialized(p) THEN Reject(p, "PlayerNotInitializedError")
  ELSE
    LET wasPlaying == p.state = "playing"
        r == QueueManager_remove(p.queue, p.currentIndex, ix)
        p1 == [p EXCEPT !.queue = r.queue, !.currentIndex = r.newIndex]
        currentTrack == getCurrentTrack(p1.queue, p1.currentIndex)
        t == [Task0 EXCEPT !.cont = "remove"]
    IN IF r.removedCurrentTrack THEN
         IF Len(p1.queue) > 0 THEN
           IF currentTrack # NoTrack THEN loadTrack(p1, t, currentTrack, wasPlaying)
           ELSE Resolve(p1)
         ELSE Resolve(updateState(p1, "stopped"))
       ELSE Resolve(p1)

\* BaseTrackPlayer.skip; op names the promise the caller holds
skip(p, index, seek, auto) ==
  IF notInitialized(p) THEN Reject(p, "PlayerNotInitializedError")
  ELSE IF "skip" \notin p.capabilities THEN CapabilityNotEnabledError(p, "skip")
  ELSE
    LET wasPlaying == p.state = "playing" \/ p.playWhenReady
        r == QueueManager_skip(p.queue, p.currentIndex, index)
        p1 == [p EXCEPT !.currentIndex = r.currentIndex]
        track == getCurrentTrack(p1.queue, p1.currentIndex)
        t == [Task0 EXCEPT !.cont = "skip", !.wasPlaying = wasPlaying,
                              !.prevIndex = r.prevIndex, !.index = index,
                              !.seek = seek, !.auto = auto]
    IN IF r.err THEN Reject(p, "OutOfBounds")
       ELSE IF track = NoTrack THEN Reject(p1, "TrackNotFoundError")
       ELSE loadTrack(p1, t, track, wasPlaying)

\* skipToNext that advances in RepeatMode.Track as in the other modes
skipToNextAdvancesInTrackMode(p, seek) ==
  IF notInitialized(p) THEN Reject(p, "PlayerNotInitializedError")
  ELSE IF "skip-to-next" \notin p.capabilities
    THEN CapabilityNotEnabledError(p, "skip-to-next")
  ELSE IF p.currentIndex < 0 THEN Reject(p, "NoTrackLoadedError")
  ELSE IF isAtEnd(p.queue, p.currentIndex) THEN
    IF p.repeatMode = "queue" /\ Len(p.queue) > 0 THEN skip(p, 0, seek, "no")
    ELSE Reject(p, "NoNextTrack")
  ELSE skip(p, p.currentIndex + 1, seek, "no")

\* BaseTrackPlayer.skipToNext
skipToNext(p, seek) ==
  IF notInitialized(p) THEN Reject(p, "PlayerNotInitializedError")
  ELSE IF "skip-to-next" \notin p.capabilities
    THEN CapabilityNotEnabledError(p, "skip-to-next")
  ELSE IF p.currentIndex < 0 THEN Reject(p, "NoTrackLoadedError")
  ELSE IF p.repeatMode = "track" THEN skip(p, p.currentIndex, seek, "no")
  ELSE IF isAtEnd(p.queue, p.currentIndex) THEN
    IF p.repeatMode = "queue" /\ Len(p.queue) > 0 THEN skip(p, 0, seek, "no")
    ELSE Reject(p, "NoNextTrack")
  ELSE skip(p, p.currentIndex + 1, seek, "no")

\* BaseTrackPlayer.skipToPrevious
skipToPrevious(p, seek) ==
  IF notInitialized(p) THEN Reject(p, "PlayerNotInitializedError")
  ELSE IF "skip-to-previous" \notin p.capabilities
    THEN CapabilityNotEnabledError(p, "skip-to-previous")
  ELSE IF p.currentIndex < 0 THEN Reject(p, "NoTrackLoadedError")
  ELSE IF p.repeatMode = "track" THEN skip(p, p.currentIndex, seek, "no")
  ELSE IF isAtStart(p.currentIndex) THEN
    IF p.repeatMode = "queue" /\ Len(p.queue) > 0
    THEN skip(p, Len(p.queue) - 1, seek, "no")
    ELSE Reject(p, "NoPreviousTrack")
  ELSE skip(p, p.currentIndex - 1, seek, "no")

\* BaseTrackPlayer.setRepeatMode
setRepeatMode(p, mode) ==
  IF notInitialized(p) THEN Reject(p, "PlayerNotInitializedError")
  ELSE Resolve([p EXCEPT !.repeatMode = mode])

\* BaseTrackPlayer.play
play(p) == playBody(p, "no")

\* pause with the play intent cleared before the capability is checked
pauseIntentFirst(p) ==
  IF notInitialized(p) THEN Reject(p, "PlayerNotInitializedError")
  ELSE IF "pause" \notin p.capabilities
    THEN CapabilityNotEnabledError([p EXCEPT !.playWhenReady = FALSE], "pause")
  ELSE IF p.currentIndex = -1 THEN Reject(p, "NoTrackLoadedError")
  ELSE Suspend(adapterCall([p EXCEPT !.playWhenReady = FALSE], "pause", 0),
               At("pause"))

\* BaseTrackPlayer.pause
pause(p) ==
  IF notInitialized(p) THEN Reject(p, "PlayerNotInitializedError")
  ELSE IF "pause" \notin p.capabilities THEN CapabilityNotEnabledError(p, "pause")
  ELSE IF p.currentIndex = -1 THEN Reject(p, "NoTrackLoadedError")
  ELSE Suspend(adapterCall([p EXCEPT !.playWhenReady = FALSE], "pause", 0),
               At("pause"))

\* BaseTrackPlayer.stop
stop(p) ==
  IF notInitialized(p) THEN Reject(p, "PlayerNotInitializedError")
  ELSE IF "stop" \notin p.capabilities THEN CapabilityNotEnabledError(p, "stop")
  ELSE IF p.currentIndex = -1 THEN Reject(p, "NoTrackLoadedError")
  ELSE Suspend(adapterCall([p EXCEPT !.playWhenReady = FALSE], "stop", 0),
               At("stop"))

\* BaseTrackPlayer.seekTo
seekTo(p) ==
  IF notInitialized(p) THEN Reject(p, "PlayerNotInitializedError")
  ELSE IF "seek-to" \notin p.capabilities THEN CapabilityNotEnabledError(p, "seek-to")
  ELSE IF p.currentIndex = -1 THEN Reject(p, "NoTrackLoadedError")
  ELSE Suspend(adapterCall(p, "seekTo", 1), At("seekTo"))

\* BaseTrackPlayer.seekBy
seekBy(p) ==
  IF notInitialized(p) THEN Reject(p, "PlayerNotInitializedError")
  ELSE IF "seek-by" \notin p.capabilities THEN CapabilityNotEnabledError(p, "seek-by")
  ELSE IF p.currentIndex = -1 THEN Reject(p, "NoTrackLoadedError")
  ELSE Suspend(adapterCall(p, "seekTo", 1), At("seekTo"))

\* BaseTrackPlayer.retry
retry(p) ==
  IF notInitialized(p) THEN Reject(p, "PlayerNotInitializedError")
  ELSE IF p.currentIndex = -1 THEN Reject(p, "NoTrackLoadedError")
  ELSE
    LET wasPlaying == p.state = "playing" \/ p.playWhenReady
        currentTrack == getCurrentTrack(p.queue, p.currentIndex)
        t == [Task0 EXCEPT !.cont = "retry", !.wasPlaying = wasPlaying]
    IN IF currentTrack # NoTrack THEN loadTrack(p, t, currentTrack, wasPlaying)
       ELSE Resolve(p)

\* BaseTrackPlayer.setVolume
setVolume(p, volume) ==
  IF notInitialized(p) THEN Reject(p, "PlayerNotInitializedError")
  ELSE IF "set-volume" \notin p.capabilities
    THEN CapabilityNotEnabledError(p, "set-volume")
  ELSE Resolve(adapterCall(p, "setVolume", clampVolume(volume)))

\* BaseTrackPlayer.setRate
setRate(p, rate) ==
  IF notInitialized(p) THEN Reject(p, "PlayerNotInitializedError")
  ELSE IF "set-rate" \notin p.capabilities THEN CapabilityNotEnabledError(p, "set-rate")
  ELSE IF isLiveStream(getCurrentTrack(p.queue, p.currentIndex))
    THEN Reject(p, "LiveStreamRate")
  ELSE
    LET clampedRate == clampRate(rate) IN
    Resolve([adapterCall(p, "setRate", clampedRate) EXCEPT !.persistentRate = clampedRate])

\* BaseTrackPlayer.setupEqualizerCallbacks: what the callbacks the player has set
\* do for the invocations fired[i..]; no callback is set for onPreAmpGainChange
RECURSIVE equalizerCallbacks(_, _, _)
equalizerCallbacks(p, fired, i) ==
  IF i > Len(fired) THEN p
  ELSE
    LET c == fired[i]
        p1 == CASE c.cb = "onBandChange" ->
                     IF p.equalizer.enabled /\ p.adapter # 0
                       THEN adapterCall(p, "setEqualizerBandGain", <<c.index, c.gain>>)
                       ELSE p
                [] c.cb = "onEnabledChange" ->
                     IF p.adapter # 0
                       THEN adapterCall(p, "setEqualizerEnabled", c.enabled)
                       ELSE p
                [] OTHER -> p
    IN equalizerCallbacks(p1, fired, i + 1)

\* the player after the EqualizerManager operation with outcome r
equalizerDone(p, r) ==
  IF r.err THEN Reject(p, "Error")
  ELSE Resolve(equalizerCallbacks([p EXCEPT !.equalizer = r.eq], r.fired, 1))

\* BaseTrackPlayer.setEqualizerEnabled
setEqualizerEnabled(p, enabled) ==
  IF notInitialized(p) THEN Reject(p, "PlayerNotInitializedError")
  ELSE equalizerDone(p, EqualizerManager_setEnabled(p.equalizer, enabled))

\* BaseTrackPlayer.setEqualizerBandGain
setEqualizerBandGain(p, bandIndex, gain) ==
  IF notInitialized(p) THEN Reject(p, "PlayerNotInitializedError")
  ELSE equalizerDone(p, EqualizerManager_setBandGain(p.equalizer, bandIndex, gain))

\* BaseTrackPlayer.setEqualizerBands
setEqualizerBands(p, bands) ==
  IF notInitialized(p) THEN Reject(p, "PlayerNotInitializedError")
  ELSE equalizerDone(p, EqualizerManager_setBands(p.equalizer, bands))

\* BaseTrackPlayer.resetEqualizer
resetEqualizer(p) ==
  IF notInitialized(p) THEN Reject(p, "PlayerNotInitializedError")
  ELSE equalizerDone(p, EqualizerManager_reset(p.equalizer))

\* BaseTrackPlayer.setEqualizerPreset
setEqualizerPreset(p, preset) ==
  IF notInitialized(p) THEN Reject(p, "PlayerNotInitializedError")
  ELSE equalizerDone(p, EqualizerManager_setPreset(p.equalizer, preset))

\* BaseTrackPlayer.reset
reset(p) ==
  IF ~p.isSetup \/ p.adapter = 0 THEN Resolve(p)
  ELSE
    LET p1 == [p EXCEPT !.isChangingTrack = FALSE, !.playWhenReady = FALSE]
    IN Suspend(adapterCall(p1, "stop", 0), At("reset"))

\* BaseTrackPlayer.destroy
destroy(p) ==
  IF p.adapter = 0 THEN Resolve(p)
  ELSE Suspend(adapterCall(p, "destroy", 0), At("destroy"))

\* BaseTrackPlayer.addEventListener / removeEventListener
addEventListener(p, event, listener) ==
  [p EXCEPT !.listeners = EventEmitter_on(@, event, listener)]
removeEventListener(p, event, listener) ==
  [p EXCEPT !.listeners = EventEmitter_off(@, event, listener).listeners]

(***************************************************************************)
(* Adapter callbacks                                                       *)
(***************************************************************************)
\* handleTrackEnded that leaves playWhenReady alone when the queue has ended
handleTrackEndedKeepsIntent(p) ==
  CASE p.repeatMode = "track" ->
         Suspend(adapterCall([p EXCEPT !.isChangingTrack = TRUE], "seekTo", 0),
                 At("replay"))
    [] p.repeatMode = "queue" ->
         LET nextIndex == IF p.currentIndex >= Len(p.queue) - 1 THEN 0
                          ELSE p.currentIndex + 1
         IN skip(p, nextIndex, FALSE, "skip")
    [] OTHER ->
         IF p.currentIndex < Len(p.queue) - 1
         THEN skip(p, p.currentIndex + 1, FALSE, "skip")
         ELSE
           LET p1 == updateState(p, "stopped")
           IN emit(p1, PlaybackQueueEnded(IF p.currentIndex >= 0 THEN p.currentIndex
                                          ELSE Null))

\* handleTrackEnded that reloads the current track in RepeatMode.Track
handleTrackEndedReload(p) ==
  CASE p.repeatMode = "track" -> skip(p, p.currentIndex, FALSE, "skip")
    [] p.repeatMode = "queue" ->
         LET nextIndex == IF p.currentIndex >= Len(p.queue) - 1 THEN 0
                          ELSE p.currentIndex + 1
         IN skip(p, nextIndex, FALSE, "skip")
    [] OTHER ->
         IF p.currentIndex < Len(p.queue) - 1
         THEN skip(p, p.currentIndex + 1, FALSE, "skip")
         ELSE
           LET p1 == updateState(p, "stopped")
               p2 == [p1 EXCEPT !.playWhenReady = FALSE]
           IN emit(p2, PlaybackQueueEnded(IF p.currentIndex >= 0 THEN p.currentIndex
                                          ELSE Null))

\* BaseTrackPlayer.handleTrackEnded
handleTrackEnded(p) ==
  CASE p.repeatMode = "track" ->
         Suspend(adapterCall([p EXCEPT !.isChangingTrack = TRUE], "seekTo", 0),
                 At("replay"))
    [] p.repeatMode = "queue" ->
         LET nextIndex == IF p.currentIndex >= Len(p.queue) - 1 THEN 0
                          ELSE p.currentIndex + 1
         IN skip(p, nextIndex, FALSE, "skip")
    [] OTHER ->
         IF p.currentIndex < Len(p.queue) - 1
         THEN skip(p, p.currentIndex + 1, FALSE, "skip")
         ELSE
           LET p1 == updateState(p, "stopped")
               p2 == [p1 EXCEPT !.playWhenReady = FALSE]
           IN emit(p2, PlaybackQueueEnded(IF p.currentIndex >= 0 THEN p.currentIndex
                                          ELSE Null))

\* BaseTrackPlayer.handleCanPlay
handleCanPlay(p) ==
  IF p.state = "buffering" THEN
    IF p.isChangingTrack /\ p.playWhenReady THEN
      updateState([adapterCall(p, "play", 0) EXCEPT !.isChangingTrack = FALSE], "playing")
    ELSE IF p.isChangingTrack /\ ~p.playWhenReady THEN
      updateState([p EXCEPT !.isChangingTrack = FALSE], "paused")
    ELSE IF ~p.adPlaying /\ ~p.playWhenReady THEN
      updateState([p EXCEPT !.isChangingTrack = FALSE], "paused")
    ELSE updateState([p EXCEPT !.isChangingTrack = FALSE], "playing")
  ELSE p

\* adapter.onError
onError(p) == updateState(emit(p, PlaybackError), "error")

\* adapter.onBuffering
onBuffering(p, isBuffering) ==
  IF ~p.isChangingTrack /\ isBuffering THEN updateState(p, "buffering") ELSE p

(***************************************************************************)
(* The continuation of a suspended operation when its promise settles      *)
(***************************************************************************)
settle(p, t, ok) ==
  CASE t.pc = "load_stop" -> loadAfterStop(p, t, ok)
    [] t.pc = "load_load" -> loadAfterLoad(p, t, ok)
    [] t.pc = "seek" ->
         IF ok THEN skipAfterSeek(p, t) ELSE Reject(p, "AdapterError")
    [] t.pc = "play" ->
         IF ok THEN finish(p, t.auto)
         ELSE Reject(emit([p EXCEPT !.adPlaying = FALSE], PlaybackError), "AdapterError")
    [] t.pc = "pause" -> IF ok THEN Resolve(p) ELSE Reject(p, "AdapterError")
    [] t.pc = "stop" ->
         IF ok THEN Resolve(updateState(p, "stopped"))
         ELSE Reject(p, "AdapterError")
    [] t.pc = "seekTo" ->
         IF ok THEN Resolve(emitProgress(p)) ELSE Reject(p, "AdapterError")
    [] t.pc = "reset" ->
         IF ok THEN Resolve(updateState([p EXCEPT !.queue = <<>>, !.currentIndex = -1],
                                        "ready"))
         ELSE Reject(p, "AdapterError")
    [] t.pc = "destroy" ->
         IF ok THEN Resolve([p EXCEPT !.queue = <<>>, !.currentIndex = -1,
                                      !.listeners = EventEmitter_removeAllListeners(@, ""), !.isSetup = FALSE,
                                      !.state = "none", !.adapter = 0,
                                      !.adSrc = NoTrack, !.adPlaying = FALSE,
                                      !.adGains = NoFilters])
         ELSE Reject(p, "AdapterError")
    [] t.pc = "init" ->
         IF ok THEN Resolve(updateState([p EXCEPT !.isSetup = TRUE], "ready"))
         ELSE Reject(p, "AdapterError")
    [] t.pc = "replay" ->
         IF ok THEN
           LET p1 == IF p.adapter # 0 THEN adapterCall(p, "play", 0) ELSE p
               p2 == updateState(p1, "playing")
           IN Resolve([p2 EXCEPT !.isChangingTrack = FALSE])
         ELSE Reject(p, "AdapterError")

(***************************************************************************)
(* Specification Spec: the player, its callers and its adapter             *)
(***************************************************************************)
\* argument sets
PFreshTrackLists(q) ==
  {ts \in SeqsUpTo(PTracks \ Range(q), PMaxAdd) : Distinct(ts) /\ Len(q) + Len(ts) <= PMaxQueue}
PInsertPositions == {0, NoIndex}
PIndexLists(q) == SeqsUpTo(-1..Len(q), PMaxRemove)

Init ==
  /\ queue = <<>>
  /\ currentIndex = -1
  /\ result = NoResult
  /\ Constructed

CallInit(caps) == \E p \in {init(Cur, caps)} : Do(p)

CallUpdateOptions == \E caps \in CapabilitySets : Do(updateOptions(Cur, caps))

CallAdd ==
  \E ts \in PFreshTrackLists(queue), ins \in PInsertPositions : Do(add(Cur, ts, ins))

CallMove == \E from, to \in -1..Len(queue) : Do(move(Cur, from, to))

CallRemove == \E ix \in PIndexLists(queue) : Do(remove(Cur, ix))

CallSkip ==
  \E index \in -1..Len(queue), seek \in BOOLEAN :
                   Do(skip(Cur, index, seek, "no"))

CallSkipToNext == \E seek \in BOOLEAN : Do(skipToNext(Cur, seek))

CallSkipToPrevious == \E seek \in BOOLEAN : Do(skipToPrevious(Cur, seek))

CallSetRepeatMode == \E mode \in RepeatModes : Do(setRepeatMode(Cur, mode))

CallPlay == \E p \in {play(Cur)} : Do(p)

CallPause == \E p \in {pause(Cur)} : Do(p)

CallStop == \E p \in {stop(Cur)} : Do(p)

CallSeekTo == \E p \in {seekTo(Cur)} : Do(p)

CallSeekBy == \E p \in {seekBy(Cur)} : Do(p)

CallRetry == \E p \in {retry(Cur)} : Do(p)

CallSetVolume == \E volume \in VolumeInputs : Do(setVolume(Cur, volume))

CallSetRate == \E rate \in RateInputs : Do(setRate(Cur, rate))

CallReset == \E p \in {reset(Cur)} : Do(p)

CallDestroy == \E p \in {destroy(Cur)} : Do(p)

CallAddEventListener ==
  \E e \in ListenerEvents, h \in Handlers :
    Do(addEventListener(Cur, e, h))

CallRemoveEventListener ==
  \E e \in ListenerEvents, h \in Handlers :
    Do(removeEventListener(Cur, e, h))

\* the promise an operation awaits settles: resolved (ok) or rejected
\* the player after task t has resumed and run to its next await
Resume(t, ok) == settle([Cur EXCEPT !.tasks = @ (-) SetToBag({t})], t, ok)

SettleTask(t, ok) == Do(Resume(t, ok))

Settle == \E t \in BagToSet(tasks), ok \in BOOLEAN : SettleTask(t, ok)

\* the adapter calls back; it does so only for a source it was given
AdapterEnded ==
  /\ adapter # 0 /\ adSrc # NoTrack /\ adPlaying
  /\ Do(handleTrackEnded([Cur EXCEPT !.adPlaying = FALSE]))

AdapterCanPlay ==
  /\ adapter # 0 /\ adSrc # NoTrack
  /\ Do(handleCanPlay(Cur))

AdapterError ==
  /\ adapter # 0 /\ adSrc # NoTrack
  /\ Do(onError(Cur))

AdapterBuffering ==
  /\ adapter # 0 /\ adSrc # NoTrack
  /\ \E isBuffering \in BOOLEAN : Do(onBuffering(Cur, isBuffering))

AdapterMetadataLoaded ==
  /\ adapter # 0 /\ adSrc # NoTrack
  /\ Do(emitProgress(Cur))

\* the caller of Spec configures the default capabilities and repeat mode
Next ==
  \/ CallInit(DEFAULT_CAPABILITIES)
  \/ CallAdd
  \/ CallRemove
  \/ CallSkip
  \/ CallSkipToNext
  \/ CallSkipToPrevious
  \/ CallPlay
  \/ CallPause
  \/ CallStop
  \/ CallSeekTo
  \/ CallRetry
  \/ CallReset
  \/ CallDestroy
  \/ Settle
  \/ AdapterEnded
  \/ AdapterCanPlay
  \/ AdapterError
  \/ AdapterBuffering
  \/ AdapterMetadataLoaded

Spec == Init /\ [][Next]_vars

(***************************************************************************)
(* Specification CapSpec: the capability-gated operations under every      *)
(* configured capability list                                              *)
(***************************************************************************)
NextCap ==
  \/ \E caps \in CapabilitySets : CallInit(caps)
  \/ CallUpdateOptions
  \/ CallAdd
  \/ CallSkip
  \/ CallSkipToNext
  \/ CallSkipToPrevious
  \/ CallPlay
  \/ CallPause
  \/ CallStop
  \/ CallSeekTo
  \/ CallSeekBy
  \/ CallSetVolume
  \/ CallSetRate
  \/ Settle
  \/ AdapterCanPlay

CapSpec == Init /\ [][NextCap]_vars

(***************************************************************************)
(* Specification RepSpec: natural end of a track and the relative skips    *)
(* under every repeat mode, with the default capability list and with the  *)
(* list of the documented setup example                                    *)
(***************************************************************************)
\* capability lists a caller of RepSpec configures
RepCapabilitySets == {DEFAULT_CAPABILITIES, ExampleCapabilities}

NextRep ==
  \/ \E caps \in RepCapabilitySets : CallInit(caps)
  \/ CallAdd
  \/ CallSetRepeatMode
  \/ CallSkipToNext
  \/ CallSkipToPrevious
  \/ CallPlay
  \/ CallPause
  \/ CallStop
  \/ CallRetry
  \/ Settle
  \/ AdapterEnded
  \/ AdapterCanPlay
  \/ AdapterError
  \/ AdapterBuffering

RepSpec == Init /\ [][NextRep]_vars


\* ---- the queue and lifecycle operations of the player, with index lists of
\* ---- up to MaxRemove entries and with move
CallRemoveIndices == \E ix \in IndexLists(queue) : Do(remove(Cur, ix))

NextCursor ==
  \/ CallInit(DEFAULT_CAPABILITIES)
  \/ CallAdd
  \/ CallMove
  \/ CallRemoveIndices
  \/ CallSkip
  \/ CallPlay
  \/ CallReset
  \/ CallDestroy
  \/ Settle

CursorSpec == Init /\ [][NextCursor]_vars

\* ---- init() called again while an earlier init() awaits adapter.initialize()
CallInitOverlapping ==
  \E p \in {init(Cur, DEFAULT_CAPABILITIES)} :
    /\ BagCardinality(p.tasks) <= MaxInits
    /\ BagCardinality(p.tasks) - BagCardinality(TasksAt(p.tasks, {"init"})) <= MaxTasks
    /\ Commit(p)

NextInit ==
  \/ CallInitOverlapping
  \/ CallAdd
  \/ CallSkip
  \/ CallPlay
  \/ CallDestroy
  \/ Settle

InitSpec == Init /\ [][NextInit]_vars

(***************************************************************************)
(* Specification NatSpec: the player on the native adapter, whose load()   *)
(* raises its callbacks itself, before its promise settles, and raises     *)
(* can-play at no other time                                               *)
(***************************************************************************)
\* NativePlayerAdapter.load, from the decoding of the audio to its return: the
\* callbacks it raises, as the player handles them
nativeLoad(p, ok) ==
  IF ok THEN handleCanPlay(onBuffering(emitProgress(p), FALSE))
  ELSE onError(onBuffering(p, FALSE))

\* the promise an operation awaits settles; the promise of load() settles
\* after the callbacks of load()
NatSettle ==
  \E t \in BagToSet(tasks), ok \in BOOLEAN :
    LET p == [Cur EXCEPT !.tasks = @ (-) SetToBag({t})]
    IN Do(settle(IF t.pc = "load_load" THEN nativeLoad(p, ok) ELSE p, t, ok))

NextNat ==
  \/ \E caps \in {DEFAULT_CAPABILITIES} : CallInit(caps)
  \/ CallAdd
  \/ CallSkip
  \/ CallPlay
  \/ CallPause
  \/ NatSettle

NatSpec == Init /\ [][NextNat]_vars

\* every promise awaited settles in the end
NatFairSpec == NatSpec /\ WF_vars(NatSettle)

(***************************************************************************)
(* Specification RateSpec: setRate with rates below, within and above the  *)
(* limits, and loads of ordinary and live-stream tracks                    *)
(***************************************************************************)
\* rates a caller of RateSpec passes, in hundredths
RateSpecInputs == {10, 200, 500}

CallSetRateOf == \E rate \in RateSpecInputs : Do(setRate(Cur, rate))

NextRate ==
  \/ \E caps \in {DEFAULT_CAPABILITIES} : CallInit(caps)
  \/ CallAdd
  \/ CallSkip
  \/ CallSetRateOf
  \/ CallReset
  \/ Settle
  \/ AdapterCanPlay

RateSpec == Init /\ [][NextRate]_vars

(***************************************************************************)
(* Specification ESpec: an EventEmitter driven by on / off / once / emit / *)
(* removeAllListeners                                                      *)
(***************************************************************************)
\* the types of the payloads emitted: the listened-to ones and one more
EmitTypes == ListenerEvents \cup {"playback-error"}
\* all variables but listeners and result
evars == <<queue, currentIndex, isSetup, adapter, capabilities, state, playWhenReady,
           repeatMode, isChangingTrack, persistentRate, tasks, adSrc, adPlaying,
           calls, emitted, log, equalizer, adGains>>

EOn(event, handler) ==
  /\ listeners' = EventEmitter_on(listeners, event, handler)
  /\ Len(listeners') <= MaxListeners
  /\ result' = [op |-> "on"]
  /\ UNCHANGED evars

EOff(event, handler) ==
  LET r == EventEmitter_off(listeners, event, handler) IN
  /\ listeners' = r.listeners
  /\ result' = [op |-> "off", removed |-> r.removed]
  /\ UNCHANGED evars

EOnce(event, handler) ==
  /\ listeners' = EventEmitter_once(listeners, event, handler)
  /\ Len(listeners') <= MaxListeners
  /\ result' = [op |-> "once"]
  /\ UNCHANGED evars

EEmit(type) ==
  LET r == EventEmitter_emit(listeners, [type |-> type]) IN
  /\ listeners' = r.listeners
  /\ result' = [op |-> "emit", invoked |-> r.invoked, err |-> r.err]
  /\ UNCHANGED evars

ERemoveAllListeners(event) ==
  /\ listeners' = EventEmitter_removeAllListeners(listeners, event)
  /\ result' = [op |-> "removeAllListeners"]
  /\ UNCHANGED evars

ENext ==
  \/ \E event \in ListenerEvents, handler \in Handlers : EOn(event, handler)
  \/ \E event \in ListenerEvents, handler \in Handlers : EOff(event, handler)
  \/ \E event \in ListenerEvents, handler \in Handlers : EOnce(event, handler)
  \/ \E type \in EmitTypes : EEmit(type)
  \/ \E event \in ListenerEvents \cup {""} : ERemoveAllListeners(event)

ESpec == Init /\ [][ENext]_vars

(***************************************************************************)
(* Specification EqSpec: the equalizer of an initialized player            *)
(***************************************************************************)
\* band indices and gains a caller of EqSpec passes: below, within and above
\* the limits
EqIndices == {-1, 0, 9, 10}
EqGains == {-20, 5, 20}
\* presets a caller names; "unknown" is no preset
EqPresets == DOMAIN EQUALIZER_PRESETS \cup {"unknown"}
\* band lists a caller passes to setEqualizerBands: the bands as getBands gives
\* them with one gain raised above the limit, ten records of the caller's own
\* making with gains from -11 down to -20, and a list of nine
EqOwnBands == [i \in 1..10 |-> [frequency |-> 100 * i, gain |-> 0 - 10 - i, Q |-> 2]]
EqBandLists(e) ==
  {[e.bands EXCEPT ![3].gain = 20], EqOwnBands, SubSeq(e.bands, 1, 9)}

CallSetEqualizerEnabled == \E enabled \in BOOLEAN : Do(setEqualizerEnabled(Cur, enabled))

CallSetEqualizerBandGain ==
  \E bandIndex \in EqIndices, gain \in EqGains :
    Do(setEqualizerBandGain(Cur, bandIndex, gain))

CallSetEqualizerBands ==
  \E bands \in EqBandLists(equalizer) : Do(setEqualizerBands(Cur, bands))

CallResetEqualizer == \E p \in {resetEqualizer(Cur)} : Do(p)

CallSetEqualizerPreset == \E preset \in EqPresets : Do(setEqualizerPreset(Cur, preset))

NextEq ==
  \/ \E caps \in {DEFAULT_CAPABILITIES} : CallInit(caps)
  \/ Settle
  \/ CallSetEqualizerEnabled
  \/ CallSetEqualizerBandGain
  \/ CallSetEqualizerBands
  \/ CallResetEqualizer
  \/ CallSetEqualizerPreset

EqSpec == Init /\ [][NextEq]_vars

\* ---- the equalizer API together with destroy(), after which init() makes a
\* ---- new adapter
NextEqLife ==
  \/ \E caps \in {DEFAULT_CAPABILITIES} : CallInit(caps)
  \/ Settle
  \/ CallDestroy
  \/ CallSetEqualizerEnabled
  \/ CallSetEqualizerBandGain
  \/ CallSetEqualizerBands
  \/ CallResetEqualizer
  \/ CallSetEqualizerPreset

EqLifeSpec == Init /\ [][NextEqLife]_vars

(***************************************************************************)
(* Claims                                                                  *)
(***************************************************************************)
\* the step's promise was rejected
Rejected(r) == r.err \notin {"", "none"}
\* the adapter method m is among the calls
Called(cs, m) == \E i \in 1..Len(cs) : cs[i].m = m
\* no lifecycle operation is suspended
NoLifecycle == BagCardinality(TasksAt(tasks, LifecyclePcs)) = 0

(***************************************************************************)
(* C1: after every add / remove / move the cursor is -1 or a valid index.  *)
(***************************************************************************)
C1_CursorValid ==
  currentIndex = -1 \/ (0 <= currentIndex /\ currentIndex < Len(queue))

(***************************************************************************)
(* C4: remove(indices) with the cursor c >= 0 among the indices returns    *)
(* removedCurrentTrack = true and leaves the cursor at                     *)
(* min(c, newLength - 1), or at -1 when the queue becomes empty.           *)
(***************************************************************************)
C4_RemoveCurrentSnaps ==
  [][\A ix \in IndexLists(queue) :
       (QRemove(ix) /\ currentIndex >= 0 /\ currentIndex \in Range(ix)
          /\ C1_CursorValid)
       => /\ result'.removedCurrentTrack
          /\ currentIndex' = IF Len(queue') = 0 THEN -1
                             ELSE Min(currentIndex, Len(queue') - 1)]_vars

(***************************************************************************)
(* C5: remove(indices) deletes exactly the tracks at the distinct in-range *)
(* indices of the queue as it was before the call.                         *)
(***************************************************************************)
\* the queue without the positions in the set D (0-based), order kept
RECURSIVE Without(_, _, _)
Without(q, D, i) ==
  IF i > Len(q) THEN <<>>
  ELSE (IF (i - 1) \in D THEN <<>> ELSE <<q[i]>>) \o Without(q, D, i + 1)

C5_RemoveExactlyDistinct ==
  [][\A ix \in IndexLists(queue) :
       QRemove(ix) => queue' = Without(queue, Range(ix), 1)]_vars

(***************************************************************************)
(* C2: in the documented flow init -> add(tracks to an empty queue) ->     *)
(* play(), play() loads the track at index 0 before it invokes             *)
(* adapter.play(): the call starts the load (adapter.stop, then            *)
(* adapter.load) and does not invoke adapter.play() in that step.          *)
(***************************************************************************)
\* the state init -> add leaves: Ready, a queue, nothing loaded, nothing in flight
C2_Flow ==
  /\ isSetup /\ adapter # 0 /\ "play" \in capabilities
  /\ state = "ready" /\ queue # <<>> /\ adSrc = NoTrack
  /\ ~isChangingTrack /\ BagCardinality(tasks) = 0

C2_PlayLoadsFirst ==
  [][(C2_Flow /\ CallPlay)
       => /\ ~Called(calls', "play")
          /\ \E t \in BagToSet(tasks') : t.pc = "load_stop" /\ t.track = queue[1]]_vars

(***************************************************************************)
(* C3: in every state whose playback state is Error and that has a current *)
(* track, retry() is not rejected: it starts reloading the current track.  *)
(* Stated for states where no operation is in flight, so that no caller's  *)
(* own load stands in the way.                                             *)
(***************************************************************************)
C3_RetryRecovers ==
  [][(/\ isSetup /\ adapter # 0 /\ state = "error"
      /\ getCurrentTrack(queue, currentIndex) # NoTrack
      /\ BagCardinality(tasks) = 0
      /\ CallRetry)
       => /\ ~Rejected(result')
          /\ \E t \in BagToSet(tasks') :
               t.pc = "load_stop" /\ t.track = getCurrentTrack(queue, currentIndex)]_vars

(***************************************************************************)
(* C6: in every reachable state of an initialized player, each of play,    *)
(* pause, stop, skip, skipToNext, skipToPrevious, seekTo, seekBy,          *)
(* setVolume and setRate, called while its capability is absent from the   *)
(* configured list, is rejected with CapabilityNotEnabledError naming that *)
(* capability; state, queue, cursor, playWhenReady, isChangingTrack and    *)
(* the persisted rate are unchanged, no adapter method is invoked, no      *)
(* event is emitted and nothing stays suspended.                           *)
(***************************************************************************)
C6_Refused(p, cap) ==
  /\ p.result = [err |-> "CapabilityNotEnabledError", cap |-> cap]
  /\ p.state = state
  /\ p.queue = queue
  /\ p.currentIndex = currentIndex
  /\ p.playWhenReady = playWhenReady
  /\ p.isChangingTrack = isChangingTrack
  /\ p.persistentRate = persistentRate
  /\ p.calls = <<>>
  /\ p.emitted = <<>>
  /\ p.tasks = tasks

C6_Lacks(cap) == isSetup /\ adapter # 0 /\ cap \notin capabilities

C6_CapabilityGate ==
  /\ C6_Lacks("play") => C6_Refused(play(Cur), "play")
  /\ C6_Lacks("pause") => C6_Refused(pause(Cur), "pause")
  /\ C6_Lacks("stop") => C6_Refused(stop(Cur), "stop")
  /\ C6_Lacks("skip") =>
       \A index \in -1..Len(queue), seek \in BOOLEAN :
         C6_Refused(skip(Cur, index, seek, "no"), "skip")
  /\ C6_Lacks("skip-to-next") =>
       \A seek \in BOOLEAN : C6_Refused(skipToNext(Cur, seek), "skip-to-next")
  /\ C6_Lacks("skip-to-previous") =>
       \A seek \in BOOLEAN : C6_Refused(skipToPrevious(Cur, seek), "skip-to-previous")
  /\ C6_Lacks("seek-to") => C6_Refused(seekTo(Cur), "seek-to")
  /\ C6_Lacks("seek-by") => C6_Refused(seekBy(Cur), "seek-by")
  /\ C6_Lacks("set-volume") =>
       \A volume \in VolumeInputs : C6_Refused(setVolume(Cur, volume), "set-volume")
  /\ C6_Lacks("set-rate") =>
       \A rate \in RateInputs : C6_Refused(setRate(Cur, rate), "set-rate")

\* pause() has just been refused on a playing player that holds the play intent
C6_Witness ==
  /\ result = [err |-> "CapabilityNotEnabledError", cap |-> "pause"]
  /\ isSetup /\ adapter # 0 /\ "pause" \notin capabilities
  /\ state = "playing" /\ playWhenReady

(***************************************************************************)
(* C7: in every reachable state where isChangingTrack is true, skip,       *)
(* skipToNext, skipToPrevious, retry of a current track and remove of the  *)
(* current track are rejected without any adapter call, and nothing of     *)
(* them stays suspended to run later.                                      *)
(***************************************************************************)
C7_RejectedNow(p) ==
  /\ Rejected(p.result)
  /\ p.calls = <<>>
  /\ p.tasks = tasks

\* remove(ix) takes the current track out and leaves a track to load
C7_RemoveLoads(ix) ==
  LET r == QueueManager_remove(queue, currentIndex, ix) IN
  /\ r.removedCurrentTrack
  /\ getCurrentTrack(r.queue, r.newIndex) # NoTrack

C7_LoadInFlightRejects ==
  (isSetup /\ adapter # 0 /\ isChangingTrack)
    => /\ \A index \in -1..Len(queue), seek \in BOOLEAN :
            C7_RejectedNow(skip(Cur, index, seek, "no"))
       /\ \A seek \in BOOLEAN : C7_RejectedNow(skipToNext(Cur, seek))
       /\ \A seek \in BOOLEAN : C7_RejectedNow(skipToPrevious(Cur, seek))
       /\ getCurrentTrack(queue, currentIndex) # NoTrack => C7_RejectedNow(retry(Cur))
       /\ \A ix \in PIndexLists(queue) :
            C7_RemoveLoads(ix) => C7_RejectedNow(remove(Cur, ix))

\* an operation has just been turned away while a load is suspended
C7_Witness ==
  /\ result.err = "LoadInProgress"
  /\ calls = <<>>
  /\ isChangingTrack
  /\ \E t \in BagToSet(tasks) : t.pc \in LoadPcs

(***************************************************************************)
(* C8: when adapter.stop or adapter.load fails inside loadTrack, the       *)
(* PlaybackError event is emitted, then the state becomes Error (with its  *)
(* PlaybackState event after the PlaybackError event), isChangingTrack is  *)
(* cleared and the caller's promise rejects; the adapter's onError         *)
(* callback emits in the same order.                                       *)
(***************************************************************************)
C8_ErrorEvents(s) ==
  IF s # "error" THEN <<PlaybackError, PlaybackState("error")>> ELSE <<PlaybackError>>

C8_LoadFailure ==
  /\ \A t \in BagToSet(tasks) :
       t.pc \in LoadPcs =>
         LET p == Resume(t, FALSE) IN
         /\ p.emitted = C8_ErrorEvents(state)
         /\ p.state = "error"
         /\ ~p.isChangingTrack
         /\ Rejected(p.result)
  /\ adapter # 0 =>
       LET p == onError(Cur) IN
       /\ p.emitted = C8_ErrorEvents(state)
       /\ p.state = "error"

\* a failed load has just been reported to the listeners and to the caller
C8_Witness ==
  /\ result.err = "AdapterError"
  /\ emitted = <<PlaybackError, PlaybackState("error")>>
  /\ state = "error"
  /\ ~isChangingTrack

(***************************************************************************)
(* C9: once reset() has completed, the state is Ready, the queue is empty, *)
(* the cursor is -1 and playWhenReady and isChangingTrack are false, and   *)
(* a track load that was in flight when reset() was called does not change *)
(* that when it resumes.                                                   *)
(***************************************************************************)
C9_ResetPost ==
  /\ state = "ready"
  /\ queue = <<>>
  /\ currentIndex = -1
  /\ ~playWhenReady
  /\ ~isChangingTrack

C9_ResetStays ==
  [][\A t \in BagToSet(tasks) :
       (/\ isSetup /\ C9_ResetPost /\ NoLifecycle
        /\ t.pc \in LoadPcs
        /\ SettleTask(t, TRUE))
         => C9_ResetPost']_vars

(***************************************************************************)
(* C10: once destroy() has completed and until init() is called again, the *)
(* state is None, no listener is registered and the player is not          *)
(* initialized, and a track load that was in flight when destroy() was     *)
(* called does not change that when it resumes.                            *)
(***************************************************************************)
C10_DestroyPost ==
  /\ state = "none"
  /\ listeners = <<>>
  /\ ~isSetup
  /\ adapter = 0

C10_DestroyStays ==
  [][\A t \in BagToSet(tasks) :
       (/\ C10_DestroyPost /\ NoLifecycle
        /\ t.pc \in LoadPcs
        /\ SettleTask(t, TRUE))
         => C10_DestroyPost']_vars

(***************************************************************************)
(* C11: every PlaybackState event carries a state different from the state *)
(* the player held immediately before the emission: in every step, each    *)
(* PlaybackState event differs from the PlaybackState event before it in   *)
(* the step, the first from the state the step started in; a request for   *)
(* the current state emits nothing and two consecutive requests for the    *)
(* same new state emit exactly one event.                                  *)
(***************************************************************************)
\* the PlaybackState events among the events es
StateEvents(es) == SelectSeq(es, LAMBDA e : e.type = "playback-state")

C11_EmitsOnlyOnChange ==
  [][/\ LET se == StateEvents(emitted') IN
        \A i \in 1..Len(se) :
          se[i].state # (IF i = 1 THEN state ELSE se[i - 1].state)
     /\ \A s \in States :
          LET p1 == updateState(Cur, s)
              p2 == updateState(p1, s)
          IN /\ p1.emitted = IF s = state THEN <<>> ELSE <<PlaybackState(s)>>
             /\ p2.emitted = p1.emitted
             /\ p2.state = s]_vars

\* the queue has ended on a player that was already Stopped: the request for
\* Stopped emitted no state event
C11_Witness ==
  /\ state = "stopped"
  /\ emitted = <<PlaybackQueueEnded(currentIndex)>>
  /\ currentIndex >= 0

(***************************************************************************)
(* C12: between track loads the playback state mirrors the transport       *)
(* commands: when a pause() issued on a Playing player completes           *)
(* successfully the state is Paused, and when a play() issued on a Paused  *)
(* player completes successfully the state is Playing.                     *)
(***************************************************************************)
C12_TransportMirrorsState ==
  \A t \in BagToSet(tasks) :
    /\ (t.pc = "pause" /\ state = "playing") => Resume(t, TRUE).state = "paused"
    /\ (t.pc = "play" /\ t.auto = "no" /\ state = "paused")
         => Resume(t, TRUE).state = "playing"

(***************************************************************************)
(* C13: with RepeatMode.Off, natural end while the cursor is at the last   *)
(* index makes the state Stopped and playWhenReady false, emits exactly    *)
(* one PlaybackQueueEnded event carrying the cursor index (null when the   *)
(* cursor is -1), leaves queue and cursor unchanged and loads no track:    *)
(* no adapter method is invoked and nothing is left suspended.             *)
(***************************************************************************)
C13_QueueEndedAtLast ==
  (adapter # 0 /\ repeatMode = "off" /\ currentIndex = Len(queue) - 1)
    => LET p == handleTrackEnded(Cur)
           ended == PlaybackQueueEnded(IF currentIndex = -1 THEN Null ELSE currentIndex)
       IN /\ p.state = "stopped"
          /\ ~p.playWhenReady
          /\ p.emitted = (IF state # "stopped" THEN <<PlaybackState("stopped")>>
                          ELSE <<>>) \o <<ended>>
          /\ p.currentIndex = currentIndex
          /\ p.queue = queue
          /\ p.calls = <<>>
          /\ p.tasks = tasks
          /\ p.adSrc = adSrc

\* the last track of the queue has just played to its end
C13_Witness ==
  /\ repeatMode = "off"
  /\ currentIndex >= 0 /\ currentIndex = Len(queue) - 1
  /\ emitted = <<PlaybackState("stopped"), PlaybackQueueEnded(currentIndex)>>
  /\ state = "stopped"
  /\ ~playWhenReady
  /\ calls = <<>>

(***************************************************************************)
(* C14: with RepeatMode.Off, natural end while the cursor is on a track    *)
(* that is not the last one advances the cursor by one and starts loading  *)
(* the track there, for every configured capability list.  Stated for a   *)
(* Playing player with no load in progress and no operation suspended.     *)
(***************************************************************************)
\* the adapter is playing a source and may signal its natural end
C14_AtNaturalEnd == isSetup /\ adapter # 0 /\ adSrc # NoTrack /\ adPlaying

C14_OffAdvances ==
  (/\ C14_AtNaturalEnd /\ repeatMode = "off" /\ state = "playing"
   /\ 0 <= currentIndex /\ currentIndex < Len(queue) - 1
   /\ ~isChangingTrack /\ BagCardinality(tasks) = 0)
    => LET p == handleTrackEnded([Cur EXCEPT !.adPlaying = FALSE]) IN
       /\ p.currentIndex = currentIndex + 1
       /\ \E t \in BagToSet(p.tasks) :
            t.pc = "load_stop" /\ t.track = queue[currentIndex + 2]

(***************************************************************************)
(* C15: with RepeatMode.Queue, natural end with the cursor at index i of a *)
(* queue of length n > 0 moves the cursor to (i+1) mod n and starts the    *)
(* skip to it: the load of that track, then PlaybackTrackChanged with      *)
(* prevTrack = i and nextTrack = (i+1) mod n, then play().  Stated for     *)
(* capability lists that enable Skip and Play.                             *)
(***************************************************************************)
C15_QueueAdvances ==
  (/\ C14_AtNaturalEnd /\ repeatMode = "queue"
   /\ 0 <= currentIndex /\ currentIndex < Len(queue)
   /\ {"skip", "play"} \subseteq capabilities)
    => LET nextIndex == (currentIndex + 1) % Len(queue)
           p == handleTrackEnded([Cur EXCEPT !.adPlaying = FALSE])
       IN /\ p.currentIndex = nextIndex
          /\ \E t \in BagToSet(p.tasks) :
               /\ t.pc = "load_stop" /\ t.track = queue[nextIndex + 1]
               /\ t.cont = "skip" /\ t.auto = "skip"
               /\ t.prevIndex = currentIndex /\ t.index = nextIndex

(***************************************************************************)
(* C16: with RepeatMode.Track, natural end seeks the adapter to 0 and,     *)
(* when the seek has resolved, restarts the same track: adapter.load is    *)
(* not called, no PlaybackTrackChanged event is emitted, the cursor is     *)
(* unchanged, the state ends as Playing and isChangingTrack as false.      *)
(***************************************************************************)
\* no event of es is a PlaybackTrackChanged
NoTrackChanged(es) == \A i \in 1..Len(es) : es[i].type # "playback-track-changed"

C16_TrackReplays ==
  /\ (adapter # 0 /\ repeatMode = "track")
       => LET p == handleTrackEnded(Cur) IN
          /\ p.calls = <<[m |-> "seekTo", a |-> 0]>>
          /\ p.emitted = <<>>
          /\ p.currentIndex = currentIndex /\ p.queue = queue
          /\ p.adSrc = adSrc
          /\ p.tasks = tasks (+) SetToBag({At("replay")})
  /\ \A t \in BagToSet(tasks) :
       t.pc = "replay"
         => LET p == Resume(t, TRUE) IN
            /\ p.state = "playing"
            /\ ~p.isChangingTrack
            /\ p.currentIndex = currentIndex /\ p.queue = queue
            /\ p.adSrc = adSrc
            /\ p.calls = IF adapter # 0 THEN <<[m |-> "play", a |-> 0]>> ELSE <<>>
            /\ NoTrackChanged(p.emitted)
            /\ p.tasks = tasks (-) SetToBag({t})

\* the replay of the current track has just been started after its seek to 0
C16_Witness ==
  /\ repeatMode = "track"
  /\ result.err = "none"
  /\ calls = <<[m |-> "play", a |-> 0]>>
  /\ emitted = <<PlaybackState("playing")>>
  /\ state = "playing" /\ ~isChangingTrack
  /\ adSrc # NoTrack /\ adPlaying

(***************************************************************************)
(* C17: an operation that makes the adapter load another track as the      *)
(* active one emits PlaybackTrackChanged: when the load started by skip    *)
(* (no initial position) or by remove of the current track has completed,  *)
(* the operation emits the event before it ends.                           *)
(***************************************************************************)
C17_TrackChangeAnnounced ==
  \A t \in BagToSet(tasks) :
    (/\ adapter # 0 /\ t.pc = "load_load"
     /\ (t.cont = "remove" \/ (t.cont = "skip" /\ ~t.seek)))
      => ~NoTrackChanged(Resume(t, TRUE).emitted)

(***************************************************************************)
(* C18: remove(indices) on a player with no load in progress: when the     *)
(* current track was removed and the queue is not empty, the track now     *)
(* under the cursor is loaded and, once loaded, playWhenReady is what it   *)
(* was before the call; when the queue has become empty the state is       *)
(* Stopped; when the current track was not removed, no adapter method is   *)
(* invoked and the state is unchanged.                                     *)
(***************************************************************************)
\* the player when the load suspended as t has gone through adapter.stop and
\* adapter.load, both resolved, with nothing else in between
C18_Loaded(p, t) ==
  LET t1 == [t EXCEPT !.pc = "load_load"]
      p1 == loadAfterStop([p EXCEPT !.tasks = @ (-) SetToBag({t})], t, TRUE)
  IN loadAfterLoad([p1 EXCEPT !.tasks = @ (-) SetToBag({t1})], t1, TRUE)

C18_RemoveReloads ==
  (isSetup /\ adapter # 0 /\ ~isChangingTrack /\ BagCardinality(tasks) = 0)
    => \A ix \in PIndexLists(queue) :
         LET r == QueueManager_remove(queue, currentIndex, ix)
             p == remove(Cur, ix)
         IN /\ (r.removedCurrentTrack /\ Len(r.queue) > 0)
                 => \E t \in BagToSet(p.tasks) :
                      /\ t.pc = "load_stop"
                      /\ t.track = getCurrentTrack(r.queue, r.newIndex)
                      /\ C18_Loaded(p, t).adSrc = t.track
                      /\ C18_Loaded(p, t).playWhenReady = playWhenReady
            /\ (r.removedCurrentTrack /\ Len(r.queue) = 0) => p.state = "stopped"
            /\ ~r.removedCurrentTrack
                 => /\ p.calls = <<>> /\ p.tasks = tasks /\ p.state = state

(***************************************************************************)
(* C19: with the capability list of the documented setup example (Play,    *)
(* Pause, SkipToNext, SkipToPrevious, SeekTo; Skip absent), skipToNext     *)
(* with a next track and skipToPrevious with a previous track are not      *)
(* rejected with CapabilityNotEnabledError.                                *)
(***************************************************************************)
C19_ExampleSkipsAllowed ==
  (/\ isSetup /\ adapter # 0 /\ capabilities = ExampleCapabilities
   /\ 0 <= currentIndex /\ currentIndex < Len(queue))
    => \A seek \in BOOLEAN :
         /\ currentIndex + 1 < Len(queue)
              => skipToNext(Cur, seek).result.err # "CapabilityNotEnabledError"
         /\ currentIndex > 0
              => skipToPrevious(Cur, seek).result.err # "CapabilityNotEnabledError"

(***************************************************************************)
(* C20: with the cursor on a track, skipToNext / skipToPrevious skip to    *)
(* the current index in RepeatMode.Track; otherwise to cursor+1 / cursor-1 *)
(* when that index exists; at the queue boundary to index 0 / length-1 in  *)
(* RepeatMode.Queue, and in RepeatMode.Off they are rejected with          *)
(* 'No next/previous track available' and change nothing: cursor, state,   *)
(* adapter and every other field stay as they were.  A skip that is        *)
(* allowed and finds no load in progress moves the cursor to the target    *)
(* and starts loading the track there.                                     *)
(***************************************************************************)
\* the index the claim resolves for a step of d (+1 / -1); NoIndex is the error
C20_Target(d) ==
  LET n == currentIndex + d IN
  IF repeatMode = "track" THEN currentIndex
  ELSE IF 0 <= n /\ n < Len(queue) THEN n
  ELSE IF repeatMode = "queue" THEN (IF d = 1 THEN 0 ELSE Len(queue) - 1)
  ELSE NoIndex

\* p is the player after the relative skip; err is the boundary error
C20_Resolves(p, d, seek, err) ==
  LET target == C20_Target(d) IN
  IF target = NoIndex THEN p = Reject(Cur, err)
  ELSE /\ p = skip(Cur, target, seek, "no")
       /\ ("skip" \in capabilities /\ ~isChangingTrack)
            => /\ p.currentIndex = target
               /\ \E t \in BagToSet(p.tasks) :
                    /\ t.pc = "load_stop" /\ t.track = queue[target + 1]
                    /\ t.index = target /\ t.prevIndex = currentIndex

C20_SkipTargets ==
  (/\ isSetup /\ adapter # 0
   /\ 0 <= currentIndex /\ currentIndex < Len(queue))
    => \A seek \in BOOLEAN :
         /\ "skip-to-next" \in capabilities
              => C20_Resolves(skipToNext(Cur, seek), 1, seek, "NoNextTrack")
         /\ "skip-to-previous" \in capabilities
              => C20_Resolves(skipToPrevious(Cur, seek), -1, seek, "NoPreviousTrack")

\* skipToNext has just been refused on the last track of a playing queue
C20_Witness ==
  /\ result.err = "NoNextTrack"
  /\ repeatMode = "off"
  /\ currentIndex >= 1 /\ currentIndex = Len(queue) - 1
  /\ state = "playing"
  /\ calls = <<>> /\ emitted = <<>>

(***************************************************************************)
(* C21: when skipping, the PlaybackTrackChanged event of the skip is       *)
(* emitted before any PlaybackState event the skip causes: when the load   *)
(* of a skip (no initial position) has completed, the events of the skip   *)
(* start with its PlaybackTrackChanged event.                              *)
(***************************************************************************)
C21_TrackChangedFirst ==
  \A t \in BagToSet(tasks) :
    (adapter # 0 /\ t.pc = "load_load" /\ t.cont = "skip" /\ ~t.seek)
      => LET es == Resume(t, TRUE).emitted IN
         /\ es # <<>>
         /\ es[1].type = "playback-track-changed"

(***************************************************************************)
(* C22: the playback rate persists.  persistentRate changes only in a      *)
(* setRate that succeeds on a current track that is no live stream, to the *)
(* rate clamped to [0.25, 4.0], which is also the rate handed to the       *)
(* adapter; every successful load applies persistentRate (1.0 for a live   *)
(* stream) to the adapter and leaves persistentRate alone; setRate on a    *)
(* live-stream current track is rejected, calls no adapter method and      *)
(* leaves persistentRate alone.                                            *)
(***************************************************************************)
\* the rates handed to the adapter by the calls cs
RatesSet(cs) == SelectSeq(cs, LAMBDA c : c.m = "setRate")

C22_LiveWitness ==
  /\ persistentRate = 200
  /\ RatesSet(calls) = <<[m |-> "setRate", a |-> 100]>>
  /\ emitted # <<>>
  /\ emitted[1] = PlaybackState("buffering")
  /\ isLiveStream(adSrc)

\* P holds of the player after every equalizer operation applied now, with
\* every argument
AfterEqualizerOps(P(_)) ==
  /\ \A enabled \in BOOLEAN : P(setEqualizerEnabled(Cur, enabled))
  /\ \A bandIndex \in EqIndices, gain \in EqGains :
       P(setEqualizerBandGain(Cur, bandIndex, gain))
  /\ \A bands \in EqBandLists(equalizer) : P(setEqualizerBands(Cur, bands))
  /\ \A preset \in EqPresets : P(setEqualizerPreset(Cur, preset))
  /\ P(resetEqualizer(Cur))
\* the largest of the stored gains of e, and 0 if none is positive
MaxStoredGain(e) ==
  LET S == {e.bands[i].gain : i \in DOMAIN e.bands} \cup {0}
  IN CHOOSE x \in S : \A y \in S : x >= y

(***************************************************************************)
(* C23: after every EqualizerManager operation preAmpGain is minus the     *)
(* largest stored gain, or 0 if no stored gain is positive.                *)
(***************************************************************************)
C23_Follows(p) == p.equalizer.preAmpGain = 0 - MaxStoredGain(p.equalizer)

C23_PreAmpFollowsGains ==
  /\ equalizer.preAmpGain = 0 - MaxStoredGain(equalizer)
  /\ AfterEqualizerOps(C23_Follows)

\* a preset with positive gains has been set and then one band raised above it
C23_Witness ==
  /\ equalizer.preAmpGain = -12
  /\ equalizer.bands[1].gain = 12
  /\ equalizer.bands[2].gain = 5
  /\ equalizer.bands[10].gain = 5
  /\ result.err = "none"

(***************************************************************************)
(* C24: while the equalizer is enabled the adapter's pre-amp gain is the   *)
(* manager's preAmpGain: an equalizer operation after which the equalizer  *)
(* is enabled, and which changed preAmpGain or switched the equalizer on,  *)
(* hands the new preAmpGain to the adapter's setEqualizerPreAmpGain.       *)
(***************************************************************************)
C24_Passed(p) ==
  (/\ ~Rejected(p.result)
   /\ p.equalizer.enabled
   /\ p.equalizer.preAmpGain # equalizer.preAmpGain \/ ~equalizer.enabled)
    => \E i \in 1..Len(p.calls) :
         /\ p.calls[i].m = "setEqualizerPreAmpGain"
         /\ p.calls[i].a = p.equalizer.preAmpGain

C24_PreAmpReachesAdapter == AfterEqualizerOps(C24_Passed)

(***************************************************************************)
(* C25: there are always 10 bands and band i carries the i-th fixed        *)
(* frequency, whatever the operations and their arguments.                 *)
(***************************************************************************)
C25_FrequenciesFixed ==
  /\ Len(equalizer.bands) = 10
  /\ \A i \in 1..10 : equalizer.bands[i].frequency = EQUALIZER_FREQUENCIES[i]

(***************************************************************************)
(* C26: every stored gain lies within [-12, +12]; setBandGain, setBands    *)
(* and setPreset store the gain they are given limited to that range.      *)
(***************************************************************************)
\* the gain limited to the range, written out
C26_Limited(gain) == IF gain > 12 THEN 12 ELSE IF gain < -12 THEN -12 ELSE gain

C26_InRange(p) ==
  \A i \in DOMAIN p.equalizer.bands :
    /\ p.equalizer.bands[i].gain >= -12
    /\ p.equalizer.bands[i].gain <= 12

C26_GainsClamped ==
  /\ C26_InRange(Cur)
  /\ AfterEqualizerOps(C26_InRange)
  /\ isSetup /\ adapter # 0 =>
       /\ \A bandIndex \in 0..9, gain \in EqGains :
            LET p == setEqualizerBandGain(Cur, bandIndex, gain) IN
            /\ ~Rejected(p.result)
            /\ p.equalizer.bands[bandIndex + 1].gain = C26_Limited(gain)
       /\ \A bands \in EqBandLists(equalizer) :
            Len(bands) = 10 =>
              LET p == setEqualizerBands(Cur, bands) IN
              /\ ~Rejected(p.result)
              /\ \A i \in 1..10 : p.equalizer.bands[i].gain = C26_Limited(bands[i].gain)
       /\ \A preset \in DOMAIN EQUALIZER_PRESETS :
            LET p == setEqualizerPreset(Cur, preset) IN
            /\ ~Rejected(p.result)
            /\ \A i \in 1..10 :
                 p.equalizer.bands[i].gain = C26_Limited(EQUALIZER_PRESETS[preset][i])

\* setEqualizerBandGain(0, 20) on the enabled equalizer has stored 12, and the
\* pre-amp gain is -12
C26_Witness ==
  /\ equalizer.enabled
  /\ Len(calls) = 1
  /\ calls[1].m = "setEqualizerBandGain"
  /\ calls[1].a = <<0, 12>>
  /\ equalizer.bands[1].gain = 12
  /\ equalizer.preAmpGain = -12

(***************************************************************************)
(* C27: setEnabled(false) changes no stored gain and not the pre-amp gain; *)
(* the setEnabled(true) that follows invokes the callbacks in this order:  *)
(* the enabled change, every band's stored gain for index 0..9, the        *)
(* pre-amp gain; it changes no stored gain either.  The player's enabled   *)
(* and band callbacks hand these to the adapter in the same order.         *)
(***************************************************************************)
C27_Resent(e) ==
  <<EnabledChange(TRUE)>>
    \o [i \in 1..10 |-> BandChange(i - 1, e.bands[i].gain)]
    \o <<PreAmpGainChange(e.preAmpGain)>>

C27_EnableResends ==
  LET off == EqualizerManager_setEnabled(equalizer, FALSE)
      on == EqualizerManager_setEnabled(off.eq, TRUE)
  IN /\ ~off.err
     /\ off.eq.bands = equalizer.bands
     /\ off.eq.preAmpGain = equalizer.preAmpGain
     /\ ~off.eq.enabled
     /\ off.fired = IF equalizer.enabled THEN <<EnabledChange(FALSE)>> ELSE <<>>
     /\ ~on.err
     /\ on.eq = [equalizer EXCEPT !.enabled = TRUE]
     /\ on.fired = C27_Resent(equalizer)
     /\ (isSetup /\ adapter # 0 /\ ~equalizer.enabled) =>
          LET p == setEqualizerEnabled(Cur, TRUE) IN
          /\ Len(p.calls) = 11
          /\ p.calls[1].m = "setEqualizerEnabled"
          /\ p.calls[1].a = TRUE
          /\ \A i \in 1..10 :
               /\ p.calls[i + 1].m = "setEqualizerBandGain"
               /\ p.calls[i + 1].a = <<i - 1, equalizer.bands[i].gain>>

\* the equalizer has just been switched on again and the gains stored while it
\* was off have been re-sent
C27_Witness ==
  /\ equalizer.enabled
  /\ Len(calls) = 11
  /\ calls[1].m = "setEqualizerEnabled"
  /\ calls[2].m = "setEqualizerBandGain"
  /\ calls[2].a = <<0, 12>>
  /\ calls[11].a = <<9, -12>>
  /\ equalizer.preAmpGain = -12

(***************************************************************************)
(* C28: emit(payload) invokes every handler registered for the payload's   *)
(* type exactly once, in the order of registration, and no handler of      *)
(* another type; a handler that throws does not keep the later ones from   *)
(* running; emit does not throw.  Registering a handler leaves the order   *)
(* of the earlier registrations as it was.                                 *)
(***************************************************************************)
C28_EmitReachesAll ==
  /\ \A type \in EmitTypes :
       LET data == [type |-> type]
           r == EventEmitter_emit(listeners, data)
           regs == SelectSeq(listeners, LAMBDA l : l.event = type)
       IN /\ ~r.err
          /\ Len(r.invoked) = Len(regs)
          /\ \A i \in 1..Len(regs) :
               r.invoked[i] = [handler |-> regs[i].handler, data |-> data]
  /\ \A event \in ListenerEvents, handler \in Handlers :
       /\ SubSeq(EventEmitter_on(listeners, event, handler), 1, Len(listeners)) = listeners
       /\ SubSeq(EventEmitter_once(listeners, event, handler), 1, Len(listeners)) = listeners

\* an emit has invoked the throwing handler first and another handler after
\* it, and not the handler registered for the other type
C28_Witness ==
  /\ "op" \in DOMAIN result
  /\ result.op = "emit"
  /\ ~result.err
  /\ Len(result.invoked) = 2
  /\ result.invoked[1].handler = 2
  /\ result.invoked[2].handler = 1
  /\ \E i \in 1..Len(listeners) : listeners[i].event # result.invoked[1].data.type

(***************************************************************************)
(* C29: move(from, to) with from or to outside [0, length) raises an error *)
(* and leaves the queue and the cursor as they were; move(i, i) with a     *)
(* valid i raises nothing and changes nothing.                             *)
(***************************************************************************)
C29_MoveRejectsOutOfRange ==
  \A from, to \in -2..(Len(queue) + 1) :
    LET r == QueueManager_move(queue, currentIndex, from, to)
        valid(i) == 0 <= i /\ i < Len(queue)
    IN /\ (~valid(from) \/ ~valid(to))
            => r.err /\ r.queue = queue /\ r.currentIndex = currentIndex
       /\ (valid(from) /\ from = to)
            => ~r.err /\ r.queue = queue /\ r.currentIndex = currentIndex

\* a move to the index just past the end of a queue of three has been refused
C29_Witness ==
  /\ "op" \in DOMAIN result
  /\ result.op = "move"
  /\ result.err
  /\ Len(queue) = 3
  /\ result.from = 0
  /\ result.to = Len(queue)
  /\ currentIndex = 1

(***************************************************************************)
(* C30: after every valid move(from, to) the track under the cursor is the *)
(* track that was under it before, the moved track is at index to, and the *)
(* other tracks are in the order they were in.                             *)
(***************************************************************************)
C30_MoveKeepsCurrentTrack ==
  \A from, to \in 0..(Len(queue) - 1) :
    LET r == QueueManager_move(queue, currentIndex, from, to) IN
    /\ ~r.err
    /\ getCurrentTrack(r.queue, r.currentIndex) = getCurrentTrack(queue, currentIndex)
    /\ Len(r.queue) = Len(queue)
    /\ r.queue[to + 1] = queue[from + 1]
    /\ Without(r.queue, {to}, 1) = Without(queue, {from}, 1)

\* the first track of a queue of three has been moved to the end, and the
\* cursor is on a track
C30_Witness ==
  /\ "op" \in DOMAIN result
  /\ result.op = "move"
  /\ ~result.err
  /\ Len(queue) = 3
  /\ result.from = 0
  /\ result.to = 2
  /\ currentIndex \in 0..2

(***************************************************************************)
(* C31: add(tracks, k) with 0 <= k <= length puts the tracks, in order,    *)
(* before index k; the cursor grows by their number when k <= cursor and   *)
(* stays otherwise, so the track under it is the same; add on an empty     *)
(* queue sets the cursor to 0; add of an empty list changes nothing.       *)
(***************************************************************************)
C31_AddInsertsBefore ==
  \A ts \in FreshTrackLists(queue), k \in 0..Len(queue) :
    LET r == QueueManager_add(queue, currentIndex, ts, k)
        n == Len(ts)
    IN IF n = 0 THEN r.queue = queue /\ r.currentIndex = currentIndex
       ELSE
         /\ Len(r.queue) = Len(queue) + n
         /\ \A i \in 1..Len(r.queue) :
              r.queue[i] = IF i <= k THEN queue[i]
                           ELSE IF i <= k + n THEN ts[i - k]
                           ELSE queue[i - n]
         /\ Len(queue) = 0 => r.currentIndex = 0
         /\ Len(queue) > 0 =>
              /\ r.currentIndex = IF k <= currentIndex THEN currentIndex + n
                                  ELSE currentIndex
              /\ getCurrentTrack(r.queue, r.currentIndex)
                   = getCurrentTrack(queue, currentIndex)

(***************************************************************************)
(* C32: after every can-play callback of the adapter has been handled,     *)
(* isChangingTrack is false, whatever the state was when it arrived.       *)
(***************************************************************************)
C32_CanPlayClearsFlag ==
  (adapter # 0 /\ adSrc # NoTrack) => ~handleCanPlay(Cur).isChangingTrack

(***************************************************************************)
(* C33: every successful load for which the adapter signals can-play is    *)
(* eventually followed by state Playing or Paused with isChangingTrack     *)
(* cleared, also on the native adapter, which signals can-play before the  *)
(* promise of load() resolves.                                             *)
(***************************************************************************)
\* loadTrack has just completed: it is what hands a rate to the adapter here
C33_Loaded == Called(calls, "setRate")

C33_LoadSettles ==
  C33_Loaded ~> (state \in {"playing", "paused"} /\ ~isChangingTrack)

(***************************************************************************)
(* C34: a skip(index) that succeeds updates the cursor and calls           *)
(* adapter.stop, then adapter.load, then seeks if an initial position was  *)
(* given, then emits PlaybackTrackChanged with prevTrack the cursor before *)
(* the skip (null for -1) and nextTrack index, and only then calls         *)
(* adapter.play; it calls adapter.play exactly when the state was Playing  *)
(* or playWhenReady was true before the skip.                              *)
(***************************************************************************)
\* the log without what loadTrack itself adds once the load has resolved
C34_AfterLoad(l) == SelectSeq(l, LAMBDA x : x \notin {"setRate", "playback-state"})
\* the end of a skip: the announcement, then play if playback was on
C34_Tail(p, t) ==
  /\ C34_AfterLoad(p.log)
       = <<"playback-track-changed">> \o (IF t.wasPlaying THEN <<"play">> ELSE <<>>)
  /\ \E i \in 1..Len(p.emitted) :
       p.emitted[i] = PlaybackTrackChanged(IF t.prevIndex >= 0 THEN t.prevIndex ELSE Null,
                                           t.index)

C34_SkipOrder ==
  /\ \A index \in 0..(Len(queue) - 1), seek \in BOOLEAN :
       LET p == skip(Cur, index, seek, "no") IN
       ~Rejected(p.result) =>
         /\ p.currentIndex = index
         /\ p.log = <<"stop">>
         /\ \E t \in BagToSet(p.tasks) :
              /\ t.pc = "load_stop" /\ t.cont = "skip"
              /\ t.index = index
              /\ t.prevIndex = currentIndex
              /\ t.wasPlaying = (state = "playing" \/ playWhenReady)
  /\ \A t \in BagToSet(tasks) :
       LET p == Resume(t, TRUE) IN
       (t.auto = "no" /\ ~Rejected(p.result)) =>
         /\ (t.cont = "skip" /\ t.pc = "load_stop") => p.log = <<"load">>
         /\ (t.cont = "skip" /\ t.pc = "load_load") =>
              /\ p.log[1] = "setRate"
              /\ IF t.seek THEN C34_AfterLoad(p.log) = <<"seekTo">> ELSE C34_Tail(p, t)
         /\ t.pc = "seek" => C34_Tail(p, t)

\* a skip from track 0 to track 1 with an initial position, made while playing,
\* has sought, announced the track and called adapter.play, in this order
C34_Witness ==
  /\ log = <<"playback-track-changed", "play">>
  /\ emitted = <<PlaybackTrackChanged(0, 1)>>
  /\ currentIndex = 1
  /\ \E t \in BagToSet(tasks) : t.pc = "play"

(***************************************************************************)
(* C35: a skip(index) that is rejected at once - not initialized, index    *)
(* out of bounds, a load in flight - leaves the cursor where it was, and   *)
(* so does a skip whose adapter.stop or adapter.load fails.                *)
(***************************************************************************)
C35_RejectedSkipKeepsCursor ==
  /\ \A index \in -1..Len(queue), seek \in BOOLEAN :
       LET p == skip(Cur, index, seek, "no") IN
       Rejected(p.result) => p.currentIndex = currentIndex
  /\ \A t \in BagToSet(tasks) :
       (t.cont = "skip" /\ t.pc \in LoadPcs)
         => Resume(t, FALSE).currentIndex = t.prevIndex


\* C36: when remove(indices) reports removedCurrentTrack = false, the track
\* that was under the cursor before the call is still in the queue and is the
\* track under the cursor after it, for every list of indices, repeated
\* indices included.
C36_RemoveKeepsCurrent ==
  \A ix \in IndexLists(queue) :
    LET r == QueueManager_remove(queue, currentIndex, ix) IN
    (getCurrentTrack(queue, currentIndex) # NoTrack /\ ~r.removedCurrentTrack)
      => /\ \E j \in 1..Len(r.queue) :
              r.queue[j] = getCurrentTrack(queue, currentIndex)
         /\ getCurrentTrack(r.queue, r.newIndex)
              = getCurrentTrack(queue, currentIndex)


\* C37: in every reachable state of the player a queue that holds tracks has a
\* cursor other than -1, whatever add, remove, move, skip, play, reset and
\* destroy did, so play() never takes its branch that selects index 0.
C37_NonEmptyHasCursor == Len(queue) > 0 => currentIndex # -1

\* a remove that took the current track out of a queue that keeps a track
C37_Witness ==
  /\ Len(queue) > 0
  /\ \E t \in BagToSet(tasks) : t.cont = "remove"


\* C38: whenever the player is initialized and the equalizer is enabled, the
\* gain the current adapter holds for each band, as last sent to it, is the
\* gain stored for that band, across every sequence of equalizer and
\* lifecycle operations, destroy() followed by init() included.
C38_AdapterGainsInSync ==
  (isSetup /\ adapter # 0 /\ equalizer.enabled)
    => \A i \in 1..Len(equalizer.bands) :
         i \in DOMAIN adGains /\ adGains[i] = equalizer.bands[i].gain


\* C39: init() is idempotent: on an initialized player it changes nothing, at
\* most one init() at a time has created an adapter and awaits its
\* initialize(), and an init() that completes on an initialized player
\* announces no further transition to Ready.
C39_InitIdempotent ==
  /\ isSetup =>
       LET p == init(Cur, DEFAULT_CAPABILITIES) IN
       /\ p.calls = <<>> /\ p.emitted = <<>> /\ p.tasks = tasks
       /\ p.adapter = adapter /\ p.state = state /\ p.isSetup
       /\ p.capabilities = capabilities
  /\ BagCardinality(TasksAt(tasks, {"init"})) <= 1
  /\ \A t \in BagToSet(tasks) :
       (t.pc = "init" /\ isSetup) => Resume(t, TRUE).emitted = <<>>

====
